---- MODULE Spec2Model ----
(***************************************************************************)
(* The query planner core of the document database: field ranges, query   *)
(* plans and their utility, plan sets, the per-collection plan cache and   *)
(* the multi-plan scanner, as exercised by dbtests/queryoptimizertests.cpp *)
(* and described by the planner specification.                             *)
(***************************************************************************)
EXTENDS Integers, Sequences, FiniteSets, TLC

(***************************************************************************)
(* Bounds of the model.                                                    *)
(***************************************************************************)
MaxVal == 2
MaxDocs == 3
MaxIndexes == 2
MaxQueries == 2

(***************************************************************************)
(* Values.  A document field holds Null (the field is missing) or a number *)
(* 1..MaxVal.  MinKey and TopKey pad index bounds below and above every    *)
(* value.                                                                  *)
(***************************************************************************)
Null == 0
MinKey == 0 - 1
TopKey == MaxVal + 1
Values == 1 .. MaxVal
DocValues == {Null} \cup Values

Fields == {"_id", "a", "b"}

NoOrder == << >>

(***************************************************************************)
(* Predicate clauses, one per field (a top-level conjunction).             *)
(***************************************************************************)
NoClause == [op |-> "none", lo |-> MinKey, hi |-> TopKey]
EqClause(x) == [op |-> "eq", lo |-> x, hi |-> x]
GtLtClause(x, y) == [op |-> "gtlt", lo |-> x, hi |-> y]
NeClause(x) == [op |-> "ne", lo |-> x, hi |-> x]
InClause(x, y) == [op |-> "in", lo |-> x, hi |-> y]
ExistsFalseClause == [op |-> "existsFalse", lo |-> Null, hi |-> Null]
ArrClause == [op |-> "arr", lo |-> 1, hi |-> 1]
NearClause == [op |-> "near", lo |-> MinKey, hi |-> TopKey]
ExistsTrueClause == [op |-> "existsTrue", lo |-> MinKey, hi |-> TopKey]
\* Equality to the x-th string ("z") or to an embedded object ({c:"d"}), and a
\* regex anchored at a prefix (/^ddd/).  Documents of the model hold numbers
\* only, so these match none of them.
StrEqClause(x) == [op |-> "eqStr", lo |-> x, hi |-> x]
ObjEqClause(x) == [op |-> "eqObj", lo |-> x, hi |-> x]
RegexClause(x) == [op |-> "regex", lo |-> x, hi |-> x + 1]
\* {f:{$not:c}}, and {$nor:[{f:c}]} with its one nested clause on field f.
NotClause(c) == [op |-> "not", lo |-> MinKey, hi |-> TopKey, nested |-> c]
NorClause(c) == [op |-> "nor", lo |-> MinKey, hi |-> TopKey, nested |-> c]

Pred(ca, cb, cid) == [f \in Fields |-> IF f = "a" THEN ca ELSE IF f = "b" THEN cb ELSE cid]

\* Matcher(predicate).matches(document), clause by clause.
RECURSIVE ClauseMatches(_, _)
ClauseMatches(c, v) ==
    CASE c.op = "none" -> TRUE
      [] c.op = "existsTrue" -> v # Null
      [] c.op \in {"not", "nor"} -> ~ClauseMatches(c.nested, v)
      [] c.op \in {"eqStr", "eqObj", "regex"} -> FALSE
      [] c.op = "eq" -> v = c.lo
      [] c.op = "existsFalse" -> v = Null
      [] c.op = "ne" -> v # c.lo
      [] c.op = "gtlt" -> v # Null /\ c.lo < v /\ v < c.hi
      [] c.op = "in" -> v # Null /\ c.lo <= v /\ v <= c.hi
      [] c.op = "arr" -> v = c.lo
      [] OTHER -> v # Null

Matches(pred, doc) == \A f \in Fields : ClauseMatches(pred[f], doc[f])

(***************************************************************************)
(* FieldRange: the kind of a field's range and the hull [lo, hi] it spans. *)
(* $in over the values lo..hi is a finite set, empty when lo > hi;         *)
(* $gt/$lt is empty when no value lies strictly between the bounds.        *)
(* $exists:true, $not and $nor leave the field's range universal.          *)
(***************************************************************************)
RangeKind(c) ==
    CASE c.op \in {"none", "existsTrue", "not", "nor"} -> "universal"
      [] c.op = "near" -> "universal"
      [] c.op \in {"eq", "eqStr", "eqObj"} -> "point"
      [] c.op = "regex" -> "range"
      [] c.op = "arr" -> "point"
      [] c.op = "existsFalse" -> "point"
      [] c.op = "ne" -> "range"
      [] c.op = "gtlt" -> IF c.lo + 1 >= c.hi THEN "empty" ELSE "range"
      [] OTHER -> IF c.lo > c.hi THEN "empty" ELSE IF c.lo = c.hi THEN "point" ELSE "finite"

RangeLo(c) == IF c.op = "ne" THEN MinKey ELSE c.lo
RangeHi(c) == IF c.op = "ne" THEN TopKey ELSE c.hi

Universal(pred, f) == RangeKind(pred[f]) = "universal"
Equality(pred, f) == RangeKind(pred[f]) = "point"
EmptyRange(pred, f) == RangeKind(pred[f]) = "empty"

matchPossible(pred) == \A f \in Fields : ~EmptyRange(pred, f)
numNonUniversalRanges(pred) == Cardinality({f \in Fields : ~Universal(pred, f)})
getSpecial(pred) == \E f \in Fields : pred[f].op = "near"

\* An $exists clause, bare or under $not.
HasExists(c) ==
    \/ c.op \in {"existsFalse", "existsTrue"}
    \/ c.op = "not" /\ c.nested.op \in {"existsFalse", "existsTrue"}

\* A clause that asks for documents lacking the field: $exists:false or
\* $not:{$exists:true}.
ExistsFalse(c) == c.op = "existsFalse" \/ (c.op = "not" /\ c.nested.op = "existsTrue")

\* Under $nor only such clauses count.
SparseIncompatibleSameNested(pred) ==
    \E f \in Fields :
        \/ ExistsFalse(pred[f])
        \/ pred[f].op = "nor" /\ ExistsFalse(pred[f].nested)

\* The predicate may ask for documents that lack a field: an $exists:false or
\* $not:{$exists:true} at top level, or any $exists under $nor.
SparseIncompatible(pred) ==
    \E f \in Fields :
        \/ ExistsFalse(pred[f])
        \/ pred[f].op = "nor" /\ HasExists(pred[f].nested)

(***************************************************************************)
(* QueryPattern: the kind of each field's range and the sort.              *)
(***************************************************************************)
QueryPatternWithBounds(pred, order) ==
    [kinds |-> [f \in Fields |-> <<RangeKind(pred[f]), RangeLo(pred[f]), RangeHi(pred[f])>>],
     sort |-> order]

QueryPattern(pred, order) == [kinds |-> [f \in Fields |-> RangeKind(pred[f])], sort |-> order]

(***************************************************************************)
(* Index specs.  A key is a sequence of <<field, direction>>; the 2d       *)
(* index carries direction 2.  The _id index is always index 0.            *)
(***************************************************************************)
Key1(f, d) == << <<f, d>> >>
NaturalKey == Key1("$natural", 1)
IdIndex == [name |-> "_id_", key |-> Key1("_id", 1), sparse |-> FALSE, special |-> FALSE]
NaturalIndex == [name |-> "$natural", key |-> NaturalKey, sparse |-> FALSE, special |-> FALSE]

IndexCatalog ==
    { [name |-> "a_1", key |-> Key1("a", 1), sparse |-> FALSE, special |-> FALSE],
      [name |-> "a_1", key |-> Key1("a", 1), sparse |-> TRUE, special |-> FALSE],
      [name |-> "b_1", key |-> Key1("b", 1), sparse |-> FALSE, special |-> FALSE],
      [name |-> "a_1_b_1", key |-> << <<"a", 1>>, <<"b", 1>> >>, sparse |-> FALSE, special |-> FALSE],
      [name |-> "a_2d", key |-> Key1("a", 2), sparse |-> FALSE, special |-> TRUE] }

KeyFields(key) == {key[i][1] : i \in 1 .. Len(key)}

(***************************************************************************)
(* QueryPlan: direction and scanAndOrderRequired.                          *)
(* Walk the sort and the index key together; an index field the walk       *)
(* passes over must have an equality range.                                *)
(***************************************************************************)
RECURSIVE OrderWalk(_, _, _, _, _, _)
OrderWalk(key, pred, order, i, o, dir) ==
    IF o > Len(order) THEN dir
    ELSE IF i > Len(key) THEN 0
    ELSE IF key[i][1] = order[o][1]
         THEN LET d == IF key[i][2] = order[o][2] THEN 1 ELSE 0 - 1
              IN  IF dir = 0 \/ dir = d
                  THEN OrderWalk(key, pred, order, i + 1, o + 1, d)
                  ELSE 0
    ELSE IF Equality(pred, key[i][1])
         THEN OrderWalk(key, pred, order, i + 1, o, dir)
    ELSE 0

\* The walk passes over no index field: the sort must be a prefix of the key.
PlanDirectionPrefixOnly(ix, pred, order) ==
    IF order = NoOrder THEN 1
    ELSE IF ix.name = "$natural" \/ ix.special THEN 0
    ELSE OrderWalk(ix.key, [f \in Fields |-> NoClause], order, 1, 1, 0)

PlanDirection(ix, pred, order) ==
    IF order = NoOrder THEN 1
    ELSE IF ix.name = "$natural" \/ ix.special THEN 0
    ELSE OrderWalk(ix.key, pred, order, 1, 1, 0)

scanAndOrderRequired(ix, pred, order) == PlanDirection(ix, pred, order) = 0

(***************************************************************************)
(* QueryPlan: utility.                                                     *)
(***************************************************************************)
\* Index fields up to and including the first one whose range is not an equality.
RECURSIVE OptimalPrefix(_, _, _)
OptimalPrefix(key, pred, i) ==
    IF i > Len(key) THEN Len(key)
    ELSE IF Equality(pred, key[i][1]) THEN OptimalPrefix(key, pred, i + 1)
    ELSE i

optimalIndexedQueryCount(key, pred) ==
    LET n == OptimalPrefix(key, pred, 1)
    IN  IF \E j \in (n + 1) .. Len(key) : ~Universal(pred, key[j][1])
        THEN 0 - 1
        ELSE Cardinality({j \in 1 .. n : ~Universal(pred, key[j][1])})

\* A 2d index serves a predicate whose clause on its field is a point array or $near.
SpecialSuitable(ix, pred) == pred[ix.key[1][1]].op \in {"arr", "near"}

ImpossiblePlan(ix, pred) == \E f \in KeyFields(ix.key) : EmptyRange(pred, f)
DisallowedPlan(ix, pred) == ix.sparse /\ SparseIncompatible(pred)
\* Unhelpful only when no indexed field at all has a range.
UnhelpfulPlanAnyField(ix, pred, order) ==
    /\ order = NoOrder \/ scanAndOrderRequired(ix, pred, order)
    /\ \A f \in KeyFields(ix.key) : Universal(pred, f)

UnhelpfulPlan(ix, pred, order) ==
    /\ order = NoOrder \/ scanAndOrderRequired(ix, pred, order)
    /\ Universal(pred, ix.key[1][1])
\* Optimal whatever the order the plan scans in.
OptimalPlanUnordered(ix, pred, order) ==
    optimalIndexedQueryCount(ix.key, pred) = numNonUniversalRanges(pred)

OptimalPlan(ix, pred, order) ==
    /\ ~scanAndOrderRequired(ix, pred, order)
    /\ optimalIndexedQueryCount(ix.key, pred) = numNonUniversalRanges(pred)

UtilityNeverImpossible(ix, pred, order) ==
    IF ix.name = "$natural" THEN "Helpful"
    ELSE IF ix.special
         THEN (IF SpecialSuitable(ix, pred) THEN "Helpful" ELSE "Unhelpful")
    ELSE IF DisallowedPlan(ix, pred) THEN "Disallowed"
    ELSE IF UnhelpfulPlan(ix, pred, order) THEN "Unhelpful"
    ELSE IF OptimalPlan(ix, pred, order) THEN "Optimal"
    ELSE "Helpful"

Utility(ix, pred, order) ==
    IF ix.name = "$natural" THEN "Helpful"
    ELSE IF ImpossiblePlan(ix, pred) THEN "Impossible"
    ELSE IF ix.special
         THEN (IF SpecialSuitable(ix, pred) THEN "Helpful" ELSE "Unhelpful")
    ELSE IF DisallowedPlan(ix, pred) THEN "Disallowed"
    ELSE IF UnhelpfulPlan(ix, pred, order) THEN "Unhelpful"
    ELSE IF OptimalPlan(ix, pred, order) THEN "Optimal"
    ELSE "Helpful"

QueryPlanMake(ix, pred, order) ==
    [ idx |-> ix.name,
      indexKey |-> ix.key,
      special |-> ix.special,
      sparse |-> ix.sparse,
      direction |-> PlanDirection(ix, pred, order),
      scanAndOrderRequired |-> scanAndOrderRequired(ix, pred, order),
      utility |-> Utility(ix, pred, order) ]

(***************************************************************************)
(* QueryPlan: exactKeyMatch.  The predicate is an equality to a string on  *)
(* every field of the index key and has no other clause.                   *)
(***************************************************************************)
exactKeyMatchAnyEquality(ix, pred) ==
    /\ ix.name # "$natural"
    /\ \A f \in Fields :
          IF f \in KeyFields(ix.key) THEN pred[f].op \in {"eq", "eqStr"}
          ELSE pred[f].op = "none"

exactKeyMatch(ix, pred) ==
    /\ ix.name # "$natural"
    /\ \A f \in Fields :
          IF f \in KeyFields(ix.key) THEN pred[f].op = "eqStr" ELSE pred[f].op = "none"

(***************************************************************************)
(* QueryPlan: queryFiniteSetOrderSuffix.  The constrained fields of the    *)
(* predicate are the first k fields of the index key, each held to a       *)
(* finite set; the sort, without its fields among those k, follows the key *)
(* from field k + 1; and the sort's signs are the key's, or all flipped.   *)
(***************************************************************************)
FiniteSet(pred, f) == RangeKind(pred[f]) \in {"point", "finite"}

\* The sort follows the key after its first k fields.
OrderSuffix(key, order, k) ==
    LET NotInPrefix(e) == \A i \in 1 .. k : key[i][1] # e[1]
        rest == SelectSeq(order, NotInPrefix)
    IN  /\ Len(rest) <= Len(key) - k
        /\ \A o \in 1 .. Len(rest) : key[k + o][1] = rest[o][1]
        /\ \E d \in {1, 0 - 1} :
              \A o \in 1 .. Len(order), i \in 1 .. Len(key) :
                  key[i][1] = order[o][1] => key[i][2] = d * order[o][2]

\* Constrained fields outside the index key are let through.
queryFiniteSetOrderSuffixUncovered(ix, pred, order) ==
    LET k == Cardinality({i \in 1 .. Len(ix.key) : ~Universal(pred, ix.key[i][1])})
    IN  /\ ix.name # "$natural"
        /\ ~ix.special
        /\ \A i \in 1 .. k : FiniteSet(pred, ix.key[i][1])
        /\ OrderSuffix(ix.key, order, k)

queryFiniteSetOrderSuffix(ix, pred, order) ==
    LET k == Cardinality({i \in 1 .. Len(ix.key) : ~Universal(pred, ix.key[i][1])})
    IN  /\ ix.name # "$natural"
        /\ ~ix.special
        /\ \A i \in 1 .. k : FiniteSet(pred, ix.key[i][1])
        /\ numNonUniversalRanges(pred) = k
        /\ OrderSuffix(ix.key, order, k)

(***************************************************************************)
(* QueryPlan: the start and end keys of the plan's FieldRangeVector.  A    *)
(* position runs forward when the field's index direction and the scan     *)
(* direction agree; a scan that must be sorted afterwards runs forward.    *)
(***************************************************************************)
Forward(keyDir, direction) ==
    (IF keyDir >= 0 THEN 1 ELSE 0 - 1) * (IF direction >= 0 THEN 1 ELSE 0 - 1) > 0

\* A collection scan has no keys.
startKeyUnflipped(p, pred) ==
    IF p.idx = "$natural" THEN << >>
    ELSE [i \in 1 .. Len(p.indexKey) |-> RangeLo(pred[p.indexKey[i][1]])]

startKey(p, pred) ==
    IF p.idx = "$natural" THEN << >>
    ELSE [i \in 1 .. Len(p.indexKey) |->
             IF Forward(p.indexKey[i][2], p.direction)
             THEN RangeLo(pred[p.indexKey[i][1]])
             ELSE RangeHi(pred[p.indexKey[i][1]])]

endKey(p, pred) ==
    IF p.idx = "$natural" THEN << >>
    ELSE [i \in 1 .. Len(p.indexKey) |->
             IF Forward(p.indexKey[i][2], p.direction)
             THEN RangeHi(pred[p.indexKey[i][1]])
             ELSE RangeLo(pred[p.indexKey[i][1]])]

(***************************************************************************)
(* PlanCache: QueryPattern -> CachedQueryPlan.  utility is the rating the  *)
(* recorded plan had when the planner recorded it ("Unrated" when the      *)
(* entry was registered directly, without a plan).                         *)
(***************************************************************************)
EmptyCache == [p \in {} |-> 0]

CachedQueryPlan(key, n, inOrder, outOfOrder, util) ==
    [indexKey |-> key, nScanned |-> n, mayRunInOrderPlan |-> inOrder,
     mayRunOutOfOrderPlan |-> outOfOrder, utility |-> util]

cachedQueryPlanForPattern(cache, pat) == cache[pat]
hasCachedQueryPlan(cache, pat) == pat \in DOMAIN cache

registerCachedQueryPlanForPattern(cache, pat, e) ==
    [p \in DOMAIN cache \cup {pat} |-> IF p = pat THEN e ELSE cache[p]]

clearCachedQueryPlan(cache, pat) == [p \in DOMAIN cache \ {pat} |-> cache[p]]

(***************************************************************************)
(* Hints.                                                                  *)
(***************************************************************************)
NoHint == [kind |-> "none", key |-> << >>, name |-> ""]
KeyHint(k) == [kind |-> "key", key |-> k, name |-> ""]
NameHint(n) == [kind |-> "name", key |-> << >>, name |-> n]
NaturalHint == [kind |-> "natural", key |-> NaturalKey, name |-> ""]

\* Positions of the indexes a hint resolves to.
HintMatches(idxs, hint) ==
    {i \in 1 .. Len(idxs) :
        \/ hint.kind = "key" /\ idxs[i].key = hint.key
        \/ hint.kind = "name" /\ idxs[i].name = hint.name}

findByKey(idxs, key) == {i \in 1 .. Len(idxs) : idxs[i].key = key}

Min(S) == CHOOSE x \in S : \A y \in S : x <= y

(***************************************************************************)
(* QueryPlanSet construction.                                              *)
(***************************************************************************)
PlanSet(ps, cached, inOrder, outOfOrder, excluded, rec) ==
    [error |-> FALSE, plans |-> ps, usingCachedPlan |-> cached,
     possibleInOrderPlan |-> inOrder, possibleOutOfOrderPlan |-> outOfOrder,
     hasPossiblyExcludedPlans |-> excluded, recordsOptimal |-> rec]

UserError == [error |-> TRUE, plans |-> << >>, usingCachedPlan |-> FALSE,
     possibleInOrderPlan |-> FALSE, possibleOutOfOrderPlan |-> FALSE,
     hasPossiblyExcludedPlans |-> FALSE, recordsOptimal |-> FALSE]

SinglePlan(p, rec) ==
    PlanSet(<<p>>, FALSE, ~p.scanAndOrderRequired, p.scanAndOrderRequired, FALSE, rec)

addHintPlanOrNatural(idxs, q) ==
    IF q.hint.kind = "natural" \/ HintMatches(idxs, q.hint) = {}
    THEN SinglePlan(QueryPlanMake(NaturalIndex, q.pred, q.order), FALSE)
    ELSE LET ix == idxs[Min(HintMatches(idxs, q.hint))]
         IN  IF ix.special /\ ~q.allowSpecial THEN UserError
             ELSE SinglePlan(QueryPlanMake(ix, q.pred, q.order), FALSE)

\* Step 1-2: a hint resolves to exactly one plan, or raises a user error.
addHintPlan(idxs, q) ==
    IF q.hint.kind = "natural" THEN SinglePlan(QueryPlanMake(NaturalIndex, q.pred, q.order), FALSE)
    ELSE LET hits == HintMatches(idxs, q.hint)
         IN  IF hits = {} THEN UserError
             ELSE LET ix == idxs[Min(hits)]
                  IN  IF ix.special /\ ~q.allowSpecial THEN UserError
                      ELSE SinglePlan(QueryPlanMake(ix, q.pred, q.order), FALSE)

\* Step 3: the index a geospatial operator is served by.
SpecialIndexes(idxs, pred) ==
    {i \in 1 .. Len(idxs) : idxs[i].special /\ pred[idxs[i].key[1][1]].op = "near"}

\* Step 4: the cached plan, when the cache names a plan this query can use.
CachedPlanUsableWhateverUtility(p, allowSpecial) == p.special => allowSpecial

\* An Unhelpful cached plan is still run.
CachedPlanUsableWhenUnhelpful(p, allowSpecial) ==
    /\ p.utility \notin {"Impossible", "Disallowed"}
    /\ p.special => allowSpecial

CachedPlanUsable(p, allowSpecial) ==
    /\ p.utility \notin {"Impossible", "Disallowed", "Unhelpful"}
    /\ p.special => allowSpecial

CachedIndex(idxs, e) ==
    IF e.indexKey = NaturalKey THEN NaturalIndex ELSE idxs[Min(findByKey(idxs, e.indexKey))]

addCachedPlan(idxs, q, cache, policy) ==
    LET pat == QueryPattern(q.pred, q.order)
    IN  /\ policy = "Use"
        /\ hasCachedQueryPlan(cache, pat)
        /\ LET e == cachedQueryPlanForPattern(cache, pat)
           IN  /\ e.indexKey = NaturalKey \/ findByKey(idxs, e.indexKey) # {}
               /\ CachedPlanUsable(QueryPlanMake(CachedIndex(idxs, e), q.pred, q.order),
                                   q.allowSpecial)

\* A set built from the cache never reports excluded plans.
CachedPlanSetNothingExcluded(idxs, q, cache) ==
    LET e == cachedQueryPlanForPattern(cache, QueryPattern(q.pred, q.order))
        p == QueryPlanMake(CachedIndex(idxs, e), q.pred, q.order)
    IN  PlanSet(<<p>>, TRUE, e.mayRunInOrderPlan, e.mayRunOutOfOrderPlan, FALSE, FALSE)

CachedPlanSet(idxs, q, cache) ==
    LET e == cachedQueryPlanForPattern(cache, QueryPattern(q.pred, q.order))
        p == QueryPlanMake(CachedIndex(idxs, e), q.pred, q.order)
    IN  PlanSet(<<p>>, TRUE, e.mayRunInOrderPlan, e.mayRunOutOfOrderPlan,
                \/ e.mayRunOutOfOrderPlan /\ ~p.scanAndOrderRequired
                \/ e.mayRunInOrderPlan /\ p.scanAndOrderRequired,
                FALSE)

\* Steps 5-8: the enumerated plans.
AllPlans(idxs, q) == [i \in 1 .. Len(idxs) |-> QueryPlanMake(idxs[i], q.pred, q.order)]

KeptUtilityWithDisallowed(u) == u \notin {"Impossible", "Unhelpful"}

KeptUtility(u) == u \notin {"Impossible", "Disallowed", "Unhelpful"}

CandidatePlans(idxs, q) ==
    LET Keep(p) == KeptUtility(p.utility) /\ ~p.special
    IN  SelectSeq(AllPlans(idxs, q), Keep)

SpecialCandidatesAllowed(idxs, q) ==
    LET Keep(p) == p.special /\ p.utility = "Helpful"
    IN  SelectSeq(AllPlans(idxs, q), Keep)

SpecialCandidates(idxs, q) ==
    LET Keep(p) == p.special /\ p.utility = "Helpful" /\ q.allowSpecial
    IN  SelectSeq(AllPlans(idxs, q), Keep)

OptimalCandidates(idxs, q) ==
    LET Keep(p) == p.utility = "Optimal"
    IN  SelectSeq(CandidatePlans(idxs, q), Keep)

FirstOptimal(opts) == opts[1]

addFallbackPlansKeepingAll(idxs, q) ==
    LET ps == Append(CandidatePlans(idxs, q), QueryPlanMake(NaturalIndex, q.pred, q.order))
    IN  PlanSet(ps, FALSE,
                \E i \in 1 .. Len(ps) : ~ps[i].scanAndOrderRequired,
                \E i \in 1 .. Len(ps) : ps[i].scanAndOrderRequired,
                FALSE, FALSE)

\* The collection scan is added only when no kept plan runs in the sort's order.
addFallbackPlansScanIfUnordered(idxs, q) ==
    LET cands == CandidatePlans(idxs, q)
        opts == OptimalCandidates(idxs, q)
        specs == SpecialCandidates(idxs, q)
    IN  IF opts # << >> THEN SinglePlan(FirstOptimal(opts), TRUE)
        ELSE IF cands = << >> /\ specs # << >> THEN SinglePlan(specs[1], FALSE)
        ELSE LET ps == IF \E i \in 1 .. Len(cands) : ~cands[i].scanAndOrderRequired
                       THEN cands
                       ELSE Append(cands, QueryPlanMake(NaturalIndex, q.pred, q.order))
             IN  PlanSet(ps, FALSE,
                         \E i \in 1 .. Len(ps) : ~ps[i].scanAndOrderRequired,
                         \E i \in 1 .. Len(ps) : ps[i].scanAndOrderRequired,
                         FALSE, FALSE)

\* A suitable special index is preferred to the btree plans.
addFallbackPlansSpecialFirst(idxs, q) ==
    LET cands == CandidatePlans(idxs, q)
        opts == OptimalCandidates(idxs, q)
        specs == SpecialCandidates(idxs, q)
    IN  IF opts # << >> THEN SinglePlan(FirstOptimal(opts), TRUE)
        ELSE IF specs # << >> THEN SinglePlan(specs[1], FALSE)
        ELSE LET ps == Append(cands, QueryPlanMake(NaturalIndex, q.pred, q.order))
             IN  PlanSet(ps, FALSE,
                         \E i \in 1 .. Len(ps) : ~ps[i].scanAndOrderRequired,
                         \E i \in 1 .. Len(ps) : ps[i].scanAndOrderRequired,
                         FALSE, FALSE)

addFallbackPlans(idxs, q) ==
    LET cands == CandidatePlans(idxs, q)
        opts == OptimalCandidates(idxs, q)
        specs == SpecialCandidates(idxs, q)
    IN  IF opts # << >> THEN SinglePlan(FirstOptimal(opts), TRUE)
        ELSE IF cands = << >> /\ specs # << >> THEN SinglePlan(specs[1], FALSE)
        ELSE LET ps == Append(cands, QueryPlanMake(NaturalIndex, q.pred, q.order))
             IN  PlanSet(ps, FALSE,
                         \E i \in 1 .. Len(ps) : ~ps[i].scanAndOrderRequired,
                         \E i \in 1 .. Len(ps) : ps[i].scanAndOrderRequired,
                         FALSE, FALSE)

QueryPlanSetMake(idxs, q, cache, policy) ==
    IF q.hint.kind # "none" THEN addHintPlan(idxs, q)
    ELSE IF getSpecial(q.pred) /\ ~q.allowSpecial THEN UserError
    ELSE IF getSpecial(q.pred) /\ SpecialIndexes(idxs, q.pred) # {}
         THEN SinglePlan(QueryPlanMake(idxs[Min(SpecialIndexes(idxs, q.pred))], q.pred, q.order),
                         FALSE)
    ELSE IF addCachedPlan(idxs, q, cache, policy) THEN CachedPlanSet(idxs, q, cache)
    ELSE addFallbackPlans(idxs, q)

CacheAfterMakeUnrecorded(idxs, q, cache, policy) == cache

\* An Optimal plan found by enumeration registers itself, without a race.
CacheAfterMake(idxs, q, cache, policy) ==
    LET s == QueryPlanSetMake(idxs, q, cache, policy)
    IN  IF s.recordsOptimal
        THEN registerCachedQueryPlanForPattern(cache, QueryPattern(q.pred, q.order),
                 CachedQueryPlan(s.plans[1].indexKey, 0, ~s.plans[1].scanAndOrderRequired,
                                 s.plans[1].scanAndOrderRequired, s.plans[1].utility))
        ELSE cache

(***************************************************************************)
(* Storage cursors: the documents a plan visits, in the order it visits    *)
(* them.  A document is [_id, a, b]; its position in docs is its place in  *)
(* natural order.                                                          *)
(***************************************************************************)
InBounds(c, v) ==
    CASE c.op \in {"none", "near", "ne", "existsTrue", "not", "nor"} -> TRUE
      [] c.op \in {"eqStr", "eqObj", "regex"} -> FALSE
      [] c.op = "gtlt" -> c.lo < v /\ v < c.hi
      [] OTHER -> c.lo <= v /\ v <= c.hi

\* Lexicographic rank of a document's index key (first field most significant),
\* ties broken by the document's position.
RECURSIVE KeyRank(_, _, _, _)
KeyRank(doc, key, i, acc) ==
    IF i > Len(key) THEN acc
    ELSE LET v == IF key[i][2] = 1 THEN doc[key[i][1]] ELSE TopKey - doc[key[i][1]]
         IN  KeyRank(doc, key, i + 1, acc * (TopKey + 1) + v)

RECURSIVE SortByRank(_, _)
SortByRank(S, rank) ==
    IF S = {} THEN << >>
    ELSE LET m == CHOOSE x \in S : \A y \in S : rank[x] <= rank[y]
         IN  <<m>> \o SortByRank(S \ {m}, rank)

Reverse(s) == [i \in 1 .. Len(s) |-> s[Len(s) + 1 - i]]

\* Positions (in docs) the plan's cursor visits, in order.
Scan(plan, pred, ds) ==
    IF plan.idx = "$natural" THEN [i \in 1 .. Len(ds) |-> i]
    ELSE IF plan.special
         THEN SortByRank({i \in 1 .. Len(ds) : ds[i][plan.indexKey[1][1]] # Null},
                         [i \in 1 .. Len(ds) |-> i])
    ELSE LET inIndex == {i \in 1 .. Len(ds) :
                           /\ plan.sparse => ds[i][plan.indexKey[1][1]] # Null
                           /\ \A j \in 1 .. Len(plan.indexKey) :
                                 InBounds(pred[plan.indexKey[j][1]], ds[i][plan.indexKey[j][1]])}
             rank == [i \in 1 .. Len(ds) |->
                         KeyRank(ds[i], plan.indexKey, 1, 0) * (Len(ds) + 1) + i]
             fwd == SortByRank(inIndex, rank)
         IN  IF plan.direction < 0 THEN Reverse(fwd) ELSE fwd

(***************************************************************************)
(* Queries and documents the model draws its inputs from.                  *)
(***************************************************************************)
Query(pred, clauses, order, hint, allowSpecial) ==
    [pred |-> pred, or |-> clauses, order |-> order, hint |-> hint,
     allowSpecial |-> allowSpecial]

PA(c) == Pred(c, NoClause, NoClause)
PB(c) == Pred(NoClause, c, NoClause)
SortB == Key1("b", 1)

QA(v) == Query(PA(EqClause(v)), << >>, NoOrder, NoHint, TRUE)
QASortB == Query(PA(EqClause(1)), << >>, SortB, NoHint, TRUE)
QExistsFalse == Query(PA(ExistsFalseClause), << >>, NoOrder, NoHint, TRUE)
QImpossible == Query(PA(InClause(1, 0)), << >>, NoOrder, NoHint, TRUE)
QOr == Query(PA(NoClause), <<PA(EqClause(1)), PB(EqClause(1))>>, NoOrder, NoHint, TRUE)
QDelete == Query(Pred(EqClause(1), NoClause, NeClause(Null)), << >>, NoOrder, NoHint, TRUE)
QHintKey == Query(PA(EqClause(1)), << >>, SortB, KeyHint(Key1("a", 1)), TRUE)
QHintName == Query(PA(EqClause(1)), << >>, SortB, NameHint("a_1"), TRUE)
QHintNatural == Query(PA(EqClause(1)), << >>, SortB, NaturalHint, TRUE)
QExistsFalseHint == Query(PA(ExistsFalseClause), << >>, NoOrder, KeyHint(Key1("a", 1)), TRUE)
QArr(allow) == Query(PA(ArrClause), << >>, NoOrder, NoHint, allow)
QNear(allow) == Query(PA(NearClause), << >>, NoOrder, NoHint, allow)
QArrB == Query(Pred(ArrClause, EqClause(1), NoClause), << >>, NoOrder, NoHint, TRUE)

Queries ==
    {QA(1), QA(MaxVal)} \cup {QArr(x) : x \in BOOLEAN} \cup {QNear(x) : x \in BOOLEAN}
    \cup {QASortB, QExistsFalse, QImpossible, QOr, QDelete, QHintKey, QHintName,
          QHintNatural, QExistsFalseHint}

NoQuery == Query(PA(NoClause), << >>, NoOrder, NoHint, TRUE)

\* The i-th document inserted: {a:2,b:1}, {a:1,b:1}, {b:2}, {a:1,b:2}, ...
DocAt(i) ==
    [f \in Fields |->
        IF f = "_id" THEN i
        ELSE IF f = "a" THEN (IF i = 1 THEN MaxVal ELSE IF i = 3 THEN Null ELSE 1)
        ELSE (IF i <= 2 THEN 1 ELSE MaxVal)]

\* The sub-scans of a query: one per $or clause, or the predicate itself.
Clauses(q) == IF q.or = << >> THEN <<q.pred>> ELSE q.or
SubQuery(q, k) == [q EXCEPT !.pred = Clauses(q)[k]]

(***************************************************************************)
(* State.                                                                  *)
(***************************************************************************)
VARIABLES
    indexes,        \* the collection's indexes after _id, in creation order
    docs,           \* the collection's documents, in natural order
    cache,          \* the collection's PlanCache
    phase,          \* "idle", "racing", "running", "done", "cancelled", "failed"
    error,          \* "none", "UserError", "Cancelled", "DeadlineExceeded", "AllPlansFailed"
    query,          \* the query the scanner runs
    clause,         \* the sub-scan it is in (index into Clauses(query))
    qps,            \* the sub-scan's QueryPlanSet
    runs,           \* per plan of qps: cursor position, matches and status
    turn,           \* the plan the next racing step advances
    winner,         \* the plan whose cursor the caller holds (0: none yet)
    raced,          \* the sub-scan raced two or more plans
    emitted,        \* _ids handed to the caller, in order
    cacheAtStart,   \* the PlanCache as the last query or operation found it
    lastOp,         \* the last collection operation, "query" once a query has started
    nQueries,       \* queries and registrations since the PlanCache was last empty
    result          \* what the last call of an entry point (runCount, findOne, ...) returned

vars == <<indexes, docs, cache, phase, error, query, clause, qps, runs, turn, winner,
          raced, emitted, cacheAtStart, lastOp, nQueries, result>>

\* The racing threshold N and the adaptive-fallback factor.
MatchThreshold == 1
FallbackFactor == 2

AllIndexes == <<IdIndex>> \o indexes
Active == phase \in {"racing", "running"}

NoPlans == PlanSet(<< >>, FALSE, FALSE, FALSE, FALSE, FALSE)
NoWinner == [plan |-> 0, reason |-> "none", nScanned |-> 0]

\* What an entry point hands back: a count, or a cursor (the index it reads, the
\* documents it visits in order, and its matcher's predicate), or whether a
\* document was found.
Result(op, ns, n, idx, scan, matcher, found, err) ==
    [op |-> op, ns |-> ns, n |-> n, idx |-> idx, scan |-> scan, matcher |-> matcher,
     found |-> found, error |-> err]
NoResult == Result("none", "", 0, "", << >>, NoQuery.pred, FALSE, FALSE)

Run(pos, matches, status) == [pos |-> pos, matches |-> matches, status |-> status]
FreshRuns(n) == [i \in 1 .. n |-> Run(0, 0, "live")]

Init ==
    /\ indexes = << >>
    /\ docs = << >>
    /\ cache = EmptyCache
    /\ phase = "idle"
    /\ error = "none"
    /\ query = NoQuery
    /\ clause = 0
    /\ qps = NoPlans
    /\ runs = << >>
    /\ turn = 0
    /\ winner = NoWinner
    /\ raced = FALSE
    /\ emitted = << >>
    /\ cacheAtStart = EmptyCache
    /\ lastOp = "none"
    /\ nQueries = 0
    /\ result = NoResult

\* A schema change, insert or cache operation finds no scanner.
ScannerIdle(op) ==
    /\ phase' = "idle"
    /\ error' = "none"
    /\ query' = NoQuery
    /\ clause' = 0
    /\ qps' = NoPlans
    /\ runs' = << >>
    /\ turn' = 0
    /\ winner' = NoWinner
    /\ raced' = FALSE
    /\ emitted' = << >>
    /\ cacheAtStart' = cache
    /\ lastOp' = op
    /\ result' = NoResult

(***************************************************************************)
(* Collection operations.                                                  *)
(***************************************************************************)
ensureIndexKeepingCache(ix) ==
    /\ ~Active
    /\ Len(indexes) < MaxIndexes
    /\ \A i \in 1 .. Len(indexes) : indexes[i].key # ix.key /\ indexes[i].name # ix.name
    /\ indexes' = Append(indexes, ix)
    /\ UNCHANGED <<docs, cache, nQueries>>
    /\ ScannerIdle("ensureIndex")

ensureIndex(ix) ==
    /\ ~Active
    /\ Len(indexes) < MaxIndexes
    /\ \A i \in 1 .. Len(indexes) : indexes[i].key # ix.key /\ indexes[i].name # ix.name
    /\ indexes' = Append(indexes, ix)
    /\ cache' = EmptyCache
    /\ UNCHANGED docs
    /\ nQueries' = 0
    /\ ScannerIdle("ensureIndex")

dropIndex(i) ==
    /\ ~Active
    /\ i \in 1 .. Len(indexes)
    /\ indexes' = [j \in 1 .. Len(indexes) - 1 |-> IF j < i THEN indexes[j] ELSE indexes[j + 1]]
    /\ cache' = EmptyCache
    /\ UNCHANGED docs
    /\ nQueries' = 0
    /\ ScannerIdle("dropIndex")

dropCollection ==
    /\ ~Active
    /\ indexes # << >> \/ docs # << >>
    /\ indexes' = << >>
    /\ docs' = << >>
    /\ cache' = EmptyCache
    /\ nQueries' = 0
    /\ ScannerIdle("dropCollection")

insert ==
    /\ ~Active
    /\ Len(docs) < MaxDocs
    /\ docs' = Append(docs, DocAt(Len(docs) + 1))
    /\ UNCHANGED <<indexes, cache>>
    /\ UNCHANGED nQueries
    /\ ScannerIdle("insert")

clearQueryCache ==
    /\ ~Active
    /\ cache # EmptyCache
    /\ cache' = EmptyCache
    /\ UNCHANGED <<indexes, docs>>
    /\ nQueries' = 0
    /\ ScannerIdle("clearQueryCache")

\* Direct registration, as the test harness does it: a pattern and an entry naming
\* an existing index.
RegisterInputs ==
    { <<QueryPattern(PA(EqClause(1)), NoOrder), Key1("a", 1), TRUE, FALSE>>,
      <<QueryPattern(PA(EqClause(1)), SortB), Key1("a", 1), TRUE, TRUE>>,
      <<QueryPattern(PA(EqClause(1)), SortB), Key1("b", 1), TRUE, TRUE>>,
      <<QueryPattern(PA(EqClause(1)), NoOrder), Key1("a", 2), TRUE, FALSE>> }

registerCached(in) ==
    /\ ~Active
    /\ nQueries < MaxQueries
    /\ nQueries' = nQueries + 1
    /\ findByKey(AllIndexes, in[2]) # {}
    /\ cache' = registerCachedQueryPlanForPattern(cache, in[1],
                    CachedQueryPlan(in[2], 1, in[3], in[4], "Unrated"))
    /\ cache' # cache
    /\ UNCHANGED <<indexes, docs>>
    /\ ScannerIdle("registerCached")

(***************************************************************************)
(* MultiPlanScanner.                                                       *)
(***************************************************************************)
RECURSIVE NextClause(_, _)
NextClause(q, k) ==
    IF k > Len(Clauses(q)) THEN 0
    ELSE IF matchPossible(Clauses(q)[k]) THEN k
    ELSE NextClause(q, k + 1)

SinglePlanWinner == [plan |-> 1, reason |-> "single", nScanned |-> 0]

\* Plan sub-scan k and hand its plans to the scanner.
EnterClause(q, k, cacheIn, policy) ==
    LET s == QueryPlanSetMake(AllIndexes, SubQuery(q, k), cacheIn, policy)
        n == Len(s.plans)
    IN  /\ clause' = k
        /\ qps' = s
        /\ phase' = IF s.error THEN "failed" ELSE IF n >= 2 THEN "racing" ELSE "running"
        /\ error' = IF s.error THEN "UserError" ELSE "none"
        /\ cache' = CacheAfterMake(AllIndexes, SubQuery(q, k), cacheIn, policy)
        /\ runs' = FreshRuns(n)
        /\ turn' = IF n >= 2 THEN 1 ELSE 0
        /\ winner' = IF n = 1 THEN SinglePlanWinner ELSE NoWinner
        /\ raced' = (n >= 2)

StartQuery(q) ==
    /\ ~Active
    /\ nQueries < MaxQueries
    /\ nQueries' = nQueries + 1
    /\ query' = q
    /\ emitted' = << >>
    /\ cacheAtStart' = cache
    /\ lastOp' = "query"
    /\ result' = NoResult
    /\ UNCHANGED <<indexes, docs>>
    /\ IF NextClause(q, 1) = 0
       THEN /\ phase' = "done"
            /\ error' = "none"
            /\ clause' = 0
            /\ qps' = NoPlans
            /\ runs' = << >>
            /\ turn' = 0
            /\ winner' = NoWinner
            /\ raced' = FALSE
            /\ UNCHANGED cache
       ELSE EnterClause(q, NextClause(q, 1), cache, "Use")

CurrentPred == Clauses(query)[clause]
CurrentPattern == QueryPattern(CurrentPred, query.order)
ScanOf(i) == Scan(qps.plans[i], CurrentPred, docs)

Live(rs) == {j \in 1 .. Len(rs) : rs[j].status = "live"}

\* The live plan after i, round-robin.
NextLive(rs, i) ==
    IF \E j \in Live(rs) : j > i
    THEN Min({j \in Live(rs) : j > i})
    ELSE Min(Live(rs))

\* One step of a plan: examine the document under the cursor and advance.
StepRun(r, scan, pred) ==
    IF r.pos >= Len(scan) THEN r
    ELSE Run(r.pos + 1,
             r.matches + (IF Matches(pred, docs[scan[r.pos + 1]]) THEN 1 ELSE 0),
             r.status)

\* Why a plan that has just stepped wins: end-of-scan before N matches.
WinReasonMatchesFirst(r, scanLen) ==
    IF r.matches >= MatchThreshold THEN "nmatch"
    ELSE IF r.pos >= scanLen THEN "eos"
    ELSE "none"

WinReason(r, scanLen) ==
    IF r.pos >= scanLen THEN "eos"
    ELSE IF r.matches >= MatchThreshold THEN "nmatch"
    ELSE "none"

Seen(em, id) == \E i \in 1 .. Len(em) : em[i] = id
EmitAgain(em, id) == Append(em, id)
Emit(em, id) == IF Seen(em, id) THEN em ELSE Append(em, id)

\* Hand the caller the matches among the first n documents of a scan.
RECURSIVE EmitPrefix(_, _, _, _, _)
EmitPrefix(em, scan, pred, i, n) ==
    IF i > n THEN em
    ELSE EmitPrefix(IF Matches(pred, docs[scan[i]]) THEN Emit(em, docs[scan[i]]["_id"]) ELSE em,
                    scan, pred, i + 1, n)

ReleaseLosers(rs, w, r) ==
    [j \in 1 .. Len(rs) |->
        IF j = w THEN [r EXCEPT !.status = "winner"]
        ELSE IF rs[j].status = "live" THEN Run(0, 0, "released")
        ELSE rs[j]]

RaceStep ==
    /\ phase = "racing"
    /\ LET r == StepRun(runs[turn], ScanOf(turn), CurrentPred)
           why == WinReason(r, Len(ScanOf(turn)))
       IN  IF why # "none"
           THEN /\ winner' = [plan |-> turn, reason |-> why, nScanned |-> r.pos]
                /\ runs' = ReleaseLosers(runs, turn, r)
                /\ phase' = "running"
                /\ turn' = 0
                /\ emitted' = EmitPrefix(emitted, ScanOf(turn), CurrentPred, 1, r.pos)
           ELSE /\ runs' = [runs EXCEPT ![turn] = r]
                /\ turn' = NextLive(runs, turn)
                /\ UNCHANGED <<winner, phase, emitted>>
    /\ UNCHANGED <<indexes, docs, cache, error, query, clause, qps, raced, cacheAtStart,
                   lastOp, nQueries, result>>

\* A plan's cursor fails during the race: the plan is dropped.
PlanErrorFailingScanner ==
    /\ phase = "racing"
    /\ runs' = [runs EXCEPT ![turn] = Run(0, 0, "errored")]
    /\ phase' = "failed"
    /\ error' = "AllPlansFailed"
    /\ turn' = 0
    /\ UNCHANGED <<indexes, docs, cache, query, clause, qps, winner, raced, emitted,
                   cacheAtStart, lastOp, nQueries, result>>

PlanError ==
    /\ phase = "racing"
    /\ runs' = [runs EXCEPT ![turn] = Run(0, 0, "errored")]
    /\ IF Live(runs) = {turn}
       THEN phase' = "failed" /\ error' = "AllPlansFailed" /\ turn' = 0
       ELSE phase' = phase /\ error' = error /\ turn' = NextLive(runs', turn)
    /\ UNCHANGED <<indexes, docs, cache, query, clause, qps, winner, raced, emitted,
                   cacheAtStart, lastOp, nQueries, result>>

\* What a finished sub-scan leaves in the cache: the winner of a race.
CacheAfterScanUnrecorded == cache

CacheAfterScan ==
    IF raced
    THEN registerCachedQueryPlanForPattern(cache, CurrentPattern,
             CachedQueryPlan(qps.plans[winner.plan].indexKey, winner.nScanned,
                             qps.possibleInOrderPlan, qps.possibleOutOfOrderPlan,
                             qps.plans[winner.plan].utility))
    ELSE cache

\* The cached plan has scanned more than the factor allows.
NeverUnderperforms(n) == FALSE

Underperforms(n) ==
    /\ qps.usingCachedPlan
    /\ hasCachedQueryPlan(cache, CurrentPattern)
    /\ n > cachedQueryPlanForPattern(cache, CurrentPattern).nScanned * FallbackFactor

Advance ==
    /\ phase = "running"
    /\ UNCHANGED <<indexes, docs, query, cacheAtStart, lastOp, nQueries, result>>
    /\ LET w == winner.plan
           scan == ScanOf(w)
           r == StepRun(runs[w], scan, CurrentPred)
       IN  IF runs[w].pos >= Len(scan)
           THEN IF NextClause(query, clause + 1) = 0
                THEN /\ phase' = "done"
                     /\ cache' = CacheAfterScan
                     /\ UNCHANGED <<error, clause, qps, runs, turn, winner, raced, emitted>>
                ELSE /\ EnterClause(query, NextClause(query, clause + 1), CacheAfterScan, "Use")
                     /\ UNCHANGED emitted
           ELSE /\ emitted' = EmitPrefix(emitted, scan, CurrentPred, r.pos, r.pos)
                /\ IF Underperforms(r.pos)
                   THEN EnterClause(query, clause,
                                    clearCachedQueryPlan(cache, CurrentPattern), "Ignore")
                   ELSE /\ runs' = [runs EXCEPT ![w] = r]
                        /\ UNCHANGED <<cache, phase, error, clause, qps, turn, winner, raced>>

Released(rs) ==
    [j \in 1 .. Len(rs) |->
        IF rs[j].status \in {"live", "winner"} THEN Run(0, 0, "released")
        ELSE rs[j]]

CancelDroppingCache ==
    /\ Active
    /\ phase' = "cancelled"
    /\ error' = "Cancelled"
    /\ runs' = Released(runs)
    /\ cache' = EmptyCache
    /\ UNCHANGED <<indexes, docs, query, clause, qps, turn, winner, raced, emitted,
                   cacheAtStart, lastOp, nQueries, result>>

Cancel ==
    /\ Active
    /\ phase' = "cancelled"
    /\ error' = "Cancelled"
    /\ runs' = Released(runs)
    /\ UNCHANGED <<indexes, docs, cache, query, clause, qps, turn, winner, raced, emitted,
                   cacheAtStart, lastOp, nQueries, result>>

DeadlineExpire ==
    /\ phase = "racing"
    /\ phase' = "cancelled"
    /\ error' = "DeadlineExceeded"
    /\ runs' = Released(runs)
    /\ UNCHANGED <<indexes, docs, cache, query, clause, qps, turn, winner, raced, emitted,
                   cacheAtStart, lastOp, nQueries, result>>

Next ==
    \/ \E ix \in IndexCatalog : ensureIndex(ix)
    \/ \E i \in 1 .. MaxIndexes : dropIndex(i)
    \/ dropCollection
    \/ insert
    \/ clearQueryCache
    \/ \E in \in RegisterInputs : registerCached(in)
    \/ \E q \in Queries : StartQuery(q)
    \/ RaceStep
    \/ PlanError
    \/ Advance
    \/ Cancel
    \/ DeadlineExpire

Spec == Init /\ [][Next]_vars

\* The scanner when no caller cancels and no deadline is set: it keeps stepping
\* the race until the race is decided.
NextUncancelled ==
    \/ \E ix \in IndexCatalog : ensureIndex(ix)
    \/ \E i \in 1 .. MaxIndexes : dropIndex(i)
    \/ dropCollection
    \/ insert
    \/ clearQueryCache
    \/ \E in \in RegisterInputs : registerCached(in)
    \/ \E q \in Queries : StartQuery(q)
    \/ RaceStep
    \/ PlanError
    \/ Advance

UncancelledSpec == Init /\ [][NextUncancelled]_vars /\ WF_vars(RaceStep)

(***************************************************************************)
(* Entry points that finish within one call: building a plan set, runCount,*)
(* bestGuessCursor and Helpers::findOne.  No scanner outlives the call.    *)
(***************************************************************************)
Special2d == Key1("a", 2)
SortA == Key1("a", 1)

\* {a:[0,0]} hinted to the 2d index with special plans not allowed; {b:1} sorted
\* by a; {a:{$gt:0}}.
QHintSpecial == Query(PA(ArrClause), << >>, NoOrder, KeyHint(Special2d), FALSE)
QBSortA == Query(PB(EqClause(1)), << >>, SortA, NoHint, TRUE)
QGt == Query(PA(GtLtClause(Null, TopKey)), << >>, NoOrder, NoHint, TRUE)

\* The scanner-side variables of a call that leaves no scanner behind.
CallReturns(op, q, s, r) ==
    /\ phase' = "idle"
    /\ error' = IF s.error \/ r.error THEN "UserError" ELSE "none"
    /\ query' = q
    /\ clause' = 0
    /\ qps' = s
    /\ runs' = << >>
    /\ turn' = 0
    /\ winner' = NoWinner
    /\ raced' = FALSE
    /\ emitted' = << >>
    /\ cacheAtStart' = cache
    /\ lastOp' = op
    /\ result' = r

\* QueryPlanSet::make with the Use policy, as the plan set tests call it.
makeQps(q) ==
    /\ ~Active
    /\ nQueries < MaxQueries
    /\ nQueries' = nQueries + 1
    /\ cache' = CacheAfterMake(AllIndexes, q, cache, "Use")
    /\ UNCHANGED <<indexes, docs>>
    /\ CallReturns("makeQps", q, QueryPlanSetMake(AllIndexes, q, cache, "Use"), NoResult)

\* The collection the model holds, and a namespace that was never created.
Ns == "unittests.QueryPlanSetTests"
MissingNs == "unittests.missingNS"

\* The step of a race at which a plan's cursor decides it: the first step that
\* exhausts the scan or brings the plan to MatchThreshold matches.
FinishStep(scan, pred) ==
    IF Len(scan) = 0 THEN 1
    ELSE Min({n \in 1 .. Len(scan) :
                 \/ n = Len(scan)
                 \/ Cardinality({i \in 1 .. n : Matches(pred, docs[scan[i]])})
                       >= MatchThreshold})

\* The plan a race without errors or cancellation ends with: round-robin from
\* plan 1, the first plan to finish wins.
RaceWinner(s, pred) ==
    LET fin == [i \in 1 .. Len(s.plans) |-> FinishStep(Scan(s.plans[i], pred, docs), pred)]
    IN  Min({i \in 1 .. Len(s.plans) : \A j \in 1 .. Len(s.plans) : fin[i] <= fin[j]})

\* The plans a caller that requires an index lets run: no collection scan.
PermittedAny(s, indexOnly) == s

Permitted(s, indexOnly) ==
    LET IsIndexPlan(p) == p.idx # "$natural"
    IN  IF s.error \/ ~indexOnly THEN s
        ELSE [s EXCEPT !.plans = SelectSeq(s.plans, IsIndexPlan)]

\* The one element of a singleton set; {e(x) : x \in {v}} binds v's value once.
Only(S) == CHOOSE x \in S : TRUE

\* The cached plan is given up before it runs: it is not permitted, or its scan
\* is longer than FallbackFactor times the recorded nScanned.
Fallback(q, p) ==
    /\ ~p.qps.error
    /\ p.qps.usingCachedPlan
    /\ \/ p.qps.plans = << >>
       \/ Len(Scan(p.qps.plans[1], q.pred, docs))
             > p.cache[QueryPattern(q.pred, q.order)].nScanned * FallbackFactor

\* The plan set of a call and the cache after building it.
Planned(q, c, policy, indexOnly) ==
    [ qps |-> Permitted(QueryPlanSetMake(AllIndexes, q, c, policy), indexOnly),
      cache |-> CacheAfterMake(AllIndexes, q, c, policy) ]

\* The plan of the set that runs to the end: 0 when no plan may run.
Winner(q, s) ==
    IF s.error \/ s.plans = << >> THEN 0
    ELSE IF Len(s.plans) = 1 THEN 1 ELSE RaceWinner(s, q.pred)

\* The outcome of running plan w of the set: a race of two or more plans records
\* its winner.
Ran(q, p, w) ==
    [ qps |-> p.qps,
      plan |-> w,
      cache |-> IF ~p.qps.error /\ Len(p.qps.plans) >= 2
                THEN registerCachedQueryPlanForPattern(p.cache,
                         QueryPattern(q.pred, q.order),
                         CachedQueryPlan(p.qps.plans[w].indexKey,
                             Min({FinishStep(Scan(p.qps.plans[w], q.pred, docs), q.pred),
                                  Len(Scan(p.qps.plans[w], q.pred, docs))}),
                             p.qps.possibleInOrderPlan, p.qps.possibleOutOfOrderPlan,
                             p.qps.plans[w].utility))
                ELSE p.cache ]

\* A plan set run to completion in one call: the set (replanned without the cache
\* when the cached plan is given up), the plan that ran and the cache after.
Executed(q, c, indexOnly) ==
    Only({ Only({ Only({ Ran(q, p, w) : w \in {Winner(q, p.qps)} })
                  : p \in { IF Fallback(q, p0)
                            THEN Planned(q, clearCachedQueryPlan(p0.cache,
                                         QueryPattern(q.pred, q.order)),
                                         "Ignore", indexOnly)
                            ELSE p0 } })
           : p0 \in {Planned(q, c, "Use", indexOnly)} })

\* Documents a cursor over the scan hands back: those its matcher accepts.
CountOfScanned(scan, pred) == Len(scan)

CountOf(scan, pred) == Cardinality({i \in 1 .. Len(scan) : Matches(pred, docs[scan[i]])})

\* runCount(ns, {query}): -1 for a missing namespace, 0 for an impossible match
\* (no plan, no cache write), else the matches the executed plan's cursor yields.
runCount(ns, q) ==
    /\ ~Active
    /\ nQueries < MaxQueries
    /\ nQueries' = nQueries + 1
    /\ UNCHANGED <<indexes, docs>>
    /\ IF ns = MissingNs
       THEN /\ UNCHANGED cache
            /\ CallReturns("runCount", q, NoPlans,
                           Result("runCount", ns, 0 - 1, "", << >>, q.pred, FALSE, FALSE))
       ELSE IF ~matchPossible(q.pred)
       THEN /\ UNCHANGED cache
            /\ CallReturns("runCount", q, NoPlans,
                           Result("runCount", ns, 0, "", << >>, q.pred, FALSE, FALSE))
       ELSE \E e \in {Executed(q, cache, FALSE)} :
            \E scan \in {Scan(e.qps.plans[e.plan], q.pred, docs)} :
                /\ cache' = e.cache
                /\ CallReturns("runCount", q, e.qps,
                               Result("runCount", ns, CountOf(scan, q.pred),
                                      e.qps.plans[e.plan].idx, scan, q.pred, FALSE, FALSE))

\* A query on a namespace that does not exist returns no documents.
runQueryMissingNs(q) ==
    /\ ~Active
    /\ UNCHANGED <<indexes, docs, cache, nQueries>>
    /\ CallReturns("runQuery", q, NoPlans,
                   Result("runQuery", MissingNs, 0, "", << >>, q.pred, FALSE, FALSE))

\* bestGuessCursor takes the cached plan only if it runs in the requested order.
UsesCachedAlways(s) == TRUE

UsesCachedInOrder(s) == ~(s.usingCachedPlan /\ s.plans[1].scanAndOrderRequired)

BestGuessPolicy(q, c) ==
    LET s == QueryPlanSetMake(AllIndexes, q, c, "Use")
    IN  IF s.error \/ UsesCachedInOrder(s) THEN "Use" ELSE "Ignore"

\* The plan of a set bestGuessCursor reads: the first that needs no post-sort,
\* the first of all when every plan needs one.
getBestGuessFirst(s) == 1

getBestGuess(s) ==
    IF \E i \in 1 .. Len(s.plans) : ~s.plans[i].scanAndOrderRequired
    THEN Min({i \in 1 .. Len(s.plans) : ~s.plans[i].scanAndOrderRequired})
    ELSE 1

\* NamespaceDetailsTransient::bestGuessCursor( ns, query, sort ): one plan set, no
\* race, a cursor with a matcher over the chosen plan.
bestGuessCursor(q) ==
    /\ ~Active
    /\ nQueries < MaxQueries
    /\ nQueries' = nQueries + 1
    /\ UNCHANGED <<indexes, docs>>
    /\ LET policy == BestGuessPolicy(q, cache)
           s == QueryPlanSetMake(AllIndexes, q, cache, policy)
       IN  /\ cache' = CacheAfterMake(AllIndexes, q, cache, policy)
           /\ CallReturns("bestGuessCursor", q, s,
                 IF s.error
                 THEN Result("bestGuessCursor", Ns, 0, "", << >>, q.pred, FALSE, TRUE)
                 ELSE Result("bestGuessCursor", Ns, 0, s.plans[getBestGuess(s)].idx,
                             Scan(s.plans[getBestGuess(s)], q.pred, docs), q.pred,
                             FALSE, FALSE))

\* The _id of the first document of the scan that matches; 0 when none does.
FirstMatch(scan, pred) ==
    LET hits == {i \in 1 .. Len(scan) : Matches(pred, docs[scan[i]])}
    IN  IF hits = {} THEN 0 ELSE docs[scan[Min(hits)]]["_id"]

\* Helpers::findOne( ns, query, result, requireIndex ): true if an object is found;
\* with requireIndex, asserts if no index plan may run.
findOne(q, requireIndex) ==
    /\ ~Active
    /\ nQueries < MaxQueries
    /\ nQueries' = nQueries + 1
    /\ UNCHANGED <<indexes, docs>>
    /\ \E e \in {Executed(q, cache, requireIndex)},
          op \in {IF requireIndex THEN "findOneRequireIndex" ELSE "findOne"} :
           /\ cache' = e.cache
           /\ IF e.plan = 0
              THEN CallReturns(op, q, e.qps,
                       Result("findOne", Ns, 0, "", << >>, q.pred, FALSE, TRUE))
              ELSE \E scan \in {Scan(e.qps.plans[e.plan], q.pred, docs)} :
                       CallReturns(op, q, e.qps,
                           Result("findOne", Ns, FirstMatch(scan, q.pred),
                                  e.qps.plans[e.plan].idx, scan, q.pred,
                                  FirstMatch(scan, q.pred) # 0, FALSE))

\* AvoidUnhelpfulRecordedPlan: {b:1}, and a recorded plan on {a:1} for its pattern.
QB == Query(PB(EqClause(1)), << >>, NoOrder, NoHint, TRUE)
UnhelpfulRecorded == <<QueryPattern(QB.pred, QB.order), Key1("a", 1), TRUE, FALSE>>

\* Entry points that plan without running a scan.
NextPlanning ==
    \/ \E ix \in IndexCatalog : ensureIndex(ix)
    \/ \E i \in 1 .. MaxIndexes : dropIndex(i)
    \/ insert
    \/ clearQueryCache
    \/ \E in \in RegisterInputs \cup {UnhelpfulRecorded} : registerCached(in)
    \/ \E q \in {QA(1), QASortB, QBSortA, QImpossible, QHintKey, QHintName, QHintSpecial,
                QArr(TRUE), QArr(FALSE), QNear(TRUE), QNear(FALSE), QDelete, QArrB, QB} :
          makeQps(q)
    \/ \E q \in {QASortB, QBSortA, QA(1), QDelete} : bestGuessCursor(q)

PlanningSpec == Init /\ [][NextPlanning]_vars

\* Entry points that run the plan they choose.
NextHelpers ==
    \/ \E ix \in IndexCatalog : ensureIndex(ix)
    \/ \E i \in 1 .. MaxIndexes : dropIndex(i)
    \/ insert
    \/ clearQueryCache
    \/ \E in \in RegisterInputs : registerCached(in)
    \/ \E ns \in {Ns, MissingNs},
          q \in {QA(1), QA(MaxVal), NoQuery, QGt, QImpossible, QExistsFalse, QArr(TRUE),
                 QDelete} : runCount(ns, q)
    \/ \E q \in {NoQuery, QA(1)} : runQueryMissingNs(q)
    \/ \E q \in {QA(1), QA(MaxVal), QDelete}, requireIndex \in BOOLEAN :
           findOne(q, requireIndex)

HelpersSpec == Init /\ [][NextHelpers]_vars

(***************************************************************************)
(* QueryPlan::make and QueryPattern on their own, as QueryPlanTests call   *)
(* them: one index, one predicate, one sort, and a document to hold the    *)
(* plan's bounds against.                                                  *)
(***************************************************************************)
Index(name, key, sparse, special) ==
    [name |-> name, key |-> key, sparse |-> sparse, special |-> special]

PlanIndexes ==
    { NaturalIndex,
      Index("a_1", Key1("a", 1), FALSE, FALSE),
      Index("a_1", Key1("a", 1), TRUE, FALSE),
      Index("a_-1", Key1("a", 0 - 1), FALSE, FALSE),
      Index("b_1", Key1("b", 1), FALSE, FALSE),
      Index("a_1_b_1", << <<"a", 1>>, <<"b", 1>> >>, FALSE, FALSE),
      Index("a_-1_b_1", << <<"a", 0 - 1>>, <<"b", 1>> >>, FALSE, FALSE),
      Index("a_1_b_-1", << <<"a", 1>>, <<"b", 0 - 1>> >>, FALSE, FALSE),
      Index("a_1_b_1__id_1", << <<"a", 1>>, <<"b", 1>>, <<"_id", 1>> >>, FALSE, FALSE),
      Index("a_2d", Special2d, FALSE, TRUE) }

\* The clauses of SparseExistsFalse: $exists and $not:{$exists}, bare and under
\* $nor, and a nested equality.
ExistsClauses ==
    LET bare == {ExistsFalseClause, ExistsTrueClause, NotClause(ExistsFalseClause),
                 NotClause(ExistsTrueClause)}
    IN  bare \cup {NorClause(c) : c \in bare \cup {EqClause(1)}}

PlanPreds ==
    { Pred(ca, cb, NoClause) :
        ca \in {NoClause, EqClause(1), EqClause(MaxVal), GtLtClause(Null, TopKey),
                InClause(1, MaxVal), InClause(1, 0), NeClause(Null), ExistsFalseClause,
                StrEqClause(1), ObjEqClause(1), RegexClause(1)},
        cb \in {NoClause, EqClause(1), InClause(1, 0), GtLtClause(Null, TopKey),
                StrEqClause(1), InClause(1, MaxVal)} }
    \cup {Pred(InClause(1, MaxVal), NoClause, EqClause(1))}
    \cup {PA(c) : c \in ExistsClauses \cup {NearClause, ArrClause}}
    \cup {PB(c) : c \in ExistsClauses}

PlanOrders ==
    { NoOrder, SortA, SortB, << <<"a", 1>>, <<"b", 0 - 1>> >>,
      << <<"a", 0 - 1>>, <<"b", 0 - 1>> >>, << <<"a", 1>>, <<"_id", 1>> >>,
      Key1("_id", 1) }

PlanDocs == {[f \in Fields |-> IF f = "_id" THEN 1 ELSE IF f = "a" THEN x ELSE y] :
                x \in DocValues, y \in DocValues}

InitQueryPlan ==
    /\ indexes \in {<<ix>> : ix \in PlanIndexes}
    /\ query \in {Query(pr, << >>, o, NoHint, TRUE) : pr \in PlanPreds, o \in PlanOrders}
    /\ docs \in {<<d>> : d \in PlanDocs}
    /\ cache = EmptyCache
    /\ phase = "idle"
    /\ error = "none"
    /\ clause = 0
    /\ qps = NoPlans
    /\ runs = << >>
    /\ turn = 0
    /\ winner = NoWinner
    /\ raced = FALSE
    /\ emitted = << >>
    /\ cacheAtStart = EmptyCache
    /\ lastOp = "none"
    /\ nQueries = 0
    /\ result = NoResult

\* QueryPattern( frs, order ).
makePattern ==
    /\ result' = [op |-> "makePattern", pattern |-> QueryPattern(query.pred, query.order)]
    /\ lastOp' = "makePattern"
    /\ UNCHANGED <<indexes, docs, cache, phase, error, query, clause, qps, runs, turn,
                   winner, raced, emitted, cacheAtStart, nQueries>>

\* QueryPlan::make( nsd, idxNo, frsp, query, order ) and the keys of its frv().
makeQueryPlan ==
    /\ LET p == QueryPlanMake(indexes[1], query.pred, query.order)
       IN  result' = [op |-> "QueryPlan", plan |-> p,
                      startKey |-> startKey(p, query.pred),
                      endKey |-> endKey(p, query.pred),
                      exactKeyMatch |-> exactKeyMatch(indexes[1], query.pred),
                      queryFiniteSetOrderSuffix |->
                          queryFiniteSetOrderSuffix(indexes[1], query.pred, query.order)]
    /\ lastOp' = "QueryPlan"
    /\ UNCHANGED <<indexes, docs, cache, phase, error, query, clause, qps, runs, turn,
                   winner, raced, emitted, cacheAtStart, nQueries>>

NextQueryPlan == makePattern \/ makeQueryPlan

QueryPlanSpec == InitQueryPlan /\ [][NextQueryPlan]_vars

(***************************************************************************)
(* Properties.                                                             *)
(***************************************************************************)
\* The scanner holds a plan set built for sub-scan `clause` of `query`.
Constructed == phase # "idle" /\ clause > 0 /\ ~qps.error

Plans == {qps.plans[i] : i \in 1 .. Len(qps.plans)}

SparseA == [name |-> "a_1", key |-> Key1("a", 1), sparse |-> TRUE, special |-> FALSE]

C2_NoImpossibleOrDisallowedRecorded ==
    /\ \A pat \in DOMAIN cache : cache[pat].utility \notin {"Impossible", "Disallowed"}
    /\ (phase # "idle" /\ \A k \in 1 .. Len(Clauses(query)) : ~matchPossible(Clauses(query)[k]))
       => cache = cacheAtStart /\ phase = "done" /\ qps = NoPlans

\* C2 witness: on a collection with a sparse index a race has completed and
\* recorded its winner, a Helpful plan.
C2_Witness ==
    /\ phase = "done"
    /\ raced
    /\ \E i \in 1 .. Len(indexes) : indexes[i].sparse
    /\ hasCachedQueryPlan(cache, CurrentPattern)
    /\ cache[CurrentPattern].utility = "Helpful"
    /\ cache # cacheAtStart

\* Position in index order of the first index whose plan is Optimal (0: none).
FirstOptimalIndex ==
    LET opt == {i \in 1 .. Len(AllIndexes) :
                   /\ ~AllIndexes[i].special
                   /\ Utility(AllIndexes[i], CurrentPred, query.order) = "Optimal"}
    IN  IF opt = {} THEN 0 ELSE Min(opt)

\* C3: a plan set has exactly one plan whenever a candidate plan is Optimal,
\* a valid hint is supplied or the cached plan is used; an enumerated set
\* with an Optimal candidate holds the first Optimal plan in index order.
C3_OnePlan ==
    Constructed =>
        /\ (FirstOptimalIndex # 0 \/ query.hint.kind # "none" \/ qps.usingCachedPlan)
               => Len(qps.plans) = 1
        /\ (FirstOptimalIndex # 0 /\ query.hint.kind = "none" /\ ~qps.usingCachedPlan)
               => qps.plans[1].idx = AllIndexes[FirstOptimalIndex].name

\* C3 witness: two indexes give an Optimal plan and the set holds the first.
C3_Witness ==
    /\ Constructed
    /\ query.hint.kind = "none"
    /\ ~qps.usingCachedPlan
    /\ Cardinality({i \in 1 .. Len(AllIndexes) :
           ~AllIndexes[i].special /\ Utility(AllIndexes[i], CurrentPred, query.order) = "Optimal"}) = 2
    /\ Len(qps.plans) = 1
    /\ qps.plans[1].idx = AllIndexes[FirstOptimalIndex].name

\* The entry a pattern has in a cache, without the rating it was recorded with.
Entry(c, pat) ==
    <<c[pat].indexKey, c[pat].nScanned, c[pat].mayRunInOrderPlan, c[pat].mayRunOutOfOrderPlan>>

\* C4: once a raced sub-scan has completed, the entry under its pattern holds
\* the winner's index key, the winner's nScanned and the plan set's candidate
\* plan character, and a plan set built for the same query under policy Use
\* uses the cached plan; the identical query started next does so.
C4_WinnerRecorded ==
    /\ [](phase = "done" /\ raced =>
            /\ hasCachedQueryPlan(cache, CurrentPattern)
            /\ Entry(cache, CurrentPattern) =
                   <<qps.plans[winner.plan].indexKey, winner.nScanned,
                     qps.possibleInOrderPlan, qps.possibleOutOfOrderPlan>>
            /\ QueryPlanSetMake(AllIndexes, SubQuery(query, clause), cache, "Use").usingCachedPlan)
    /\ [][(phase = "done" /\ raced /\ Len(Clauses(query)) = 1
            /\ query' = query /\ lastOp' = "query" /\ nQueries' = nQueries + 1)
          => (/\ qps'.usingCachedPlan
              /\ qps'.plans[1].indexKey = qps.plans[winner.plan].indexKey)]_vars

\* C4 witness: with index {a:1}, the query {a:1, _id:{$ne:null}} runs the
\* cached plan {a:1} that an earlier race recorded with nScanned 1.
C4_Witness ==
    /\ Active
    /\ query = QDelete
    /\ indexes = << [name |-> "a_1", key |-> Key1("a", 1), sparse |-> FALSE, special |-> FALSE] >>
    /\ qps.usingCachedPlan
    /\ cachedQueryPlanForPattern(cacheAtStart, CurrentPattern) =
           CachedQueryPlan(Key1("a", 1), 1, TRUE, FALSE, "Helpful")

\* C5: index creation, index drop and collection drop leave the PlanCache
\* empty, and a plan set that uses a cached plan uses an entry that names an
\* index of the collection as it is now.
C5_SchemaChangeEmptiesCache ==
    /\ lastOp \in {"ensureIndex", "dropIndex", "dropCollection"} => cache = EmptyCache
    /\ \A pat \in DOMAIN cache :
           cache[pat].indexKey = NaturalKey \/ findByKey(AllIndexes, cache[pat].indexKey) # {}
    /\ (Constructed /\ qps.usingCachedPlan) =>
           \E i \in 1 .. Len(AllIndexes) : AllIndexes[i].name = qps.plans[1].idx
                                           \/ qps.plans[1].idx = "$natural"

\* C5 witness: an index was created on a collection whose cache held an entry.
C5_Witness ==
    /\ lastOp = "ensureIndex"
    /\ cacheAtStart # EmptyCache
    /\ cache = EmptyCache

C7_CacheAsBeforeQuery == phase = "cancelled" => cache = cacheAtStart

\* C7: the cancelling step - a cancellation at a racing tick or an advance,
\* or a deadline expiry at a racing tick - releases every plan cursor, writes
\* nothing to the PlanCache, declares no winner and gives the caller the
\* cancellation error; no further step of that query follows.
C7_Cancellation ==
    /\ [][(phase' = "cancelled" /\ phase # "cancelled")
          => (/\ Active
              /\ cache' = cache
              /\ winner' = winner
              /\ emitted' = emitted
              /\ error' \in {"Cancelled", "DeadlineExceeded"}
              /\ error' = "DeadlineExceeded" => phase = "racing")]_vars
    /\ [][phase = "cancelled" => (lastOp' # "query" \/ nQueries' = nQueries + 1)]_vars
    /\ [](phase = "cancelled" =>
            /\ error \in {"Cancelled", "DeadlineExceeded"}
            /\ \A i \in 1 .. Len(runs) : runs[i].status \in {"released", "errored"})

\* C7 witness: a race of two or more plans was cancelled before a winner was
\* declared, on a collection whose cache holds entries.
C7_Witness ==
    /\ phase = "cancelled"
    /\ error = "Cancelled"
    /\ Len(runs) >= 2
    /\ winner.plan = 0
    /\ cache # EmptyCache
    /\ \A i \in 1 .. Len(runs) : runs[i].status = "released"

\* Matches among the first n documents of a scan.
MatchesIn(scan, pred, n) ==
    Cardinality({i \in 1 .. n : Matches(pred, docs[scan[i]])})

\* C8: while the race runs no plan is the winner and the live plans are
\* stepped in turn, one step each per tick, none of them having reached
\* end-of-scan or N matches; the race ends with one winner, which reached
\* end-of-scan or, short of end-of-scan, N matches; the other cursors are
\* released.
C8_RoundRobinOneWinner ==
    /\ phase = "racing" =>
          /\ turn \in Live(runs)
          /\ winner = NoWinner
          /\ \A i \in 1 .. Len(runs) : runs[i].status \in {"live", "errored"}
          /\ \E p \in 0 .. Len(docs) :
                \A i \in Live(runs) : runs[i].pos = (IF i < turn THEN p + 1 ELSE p)
          /\ \A i \in Live(runs) :
                /\ runs[i].pos < Len(ScanOf(i)) \/ runs[i].pos = 0
                /\ runs[i].matches < MatchThreshold
    /\ (Constructed /\ raced /\ phase \in {"running", "done"}) =>
          /\ winner.plan \in 1 .. Len(runs)
          /\ runs[winner.plan].status = "winner"
          /\ \A j \in 1 .. Len(runs) :
                j # winner.plan => runs[j].status \in {"released", "errored"}
          /\ winner.reason \in {"eos", "nmatch"}
          /\ winner.nScanned <= Len(ScanOf(winner.plan))
          /\ winner.reason = "eos" <=> winner.nScanned = Len(ScanOf(winner.plan))
          /\ winner.reason = "nmatch" =>
                /\ MatchesIn(ScanOf(winner.plan), CurrentPred, winner.nScanned) >= MatchThreshold
                /\ MatchesIn(ScanOf(winner.plan), CurrentPred, winner.nScanned - 1) < MatchThreshold

\* C8 witness: of three plans the winner reached end-of-scan on the step that
\* also gave it N matches; the two others are released.
C8_Witness ==
    /\ phase = "running"
    /\ raced
    /\ Len(runs) = 3
    /\ winner.reason = "eos"
    /\ MatchesIn(ScanOf(winner.plan), CurrentPred, winner.nScanned) >= MatchThreshold
    /\ \A j \in 1 .. Len(runs) : j # winner.plan => runs[j].status = "released"

\* C9: a plan that errors during the race is dropped and no winner is
\* declared on that step; the scanner fails exactly when the last live plan
\* has errored; and every race ends, with a winner or with that failure.
C9_ErrorsDropPlans ==
    /\ [][(phase = "racing" /\ \E i \in 1 .. Len(runs) :
                                  runs[i].status = "live" /\ runs'[i].status = "errored")
          => (/\ winner' = NoWinner
              /\ runs'[turn].status = "errored"
              /\ \A j \in 1 .. Len(runs) : j # turn => runs'[j] = runs[j]
              /\ phase' = (IF Live(runs') = {} THEN "failed" ELSE "racing")
              /\ cache' = cache)]_vars
    /\ [](error = "AllPlansFailed" =>
            /\ phase = "failed"
            /\ runs # << >>
            /\ \A i \in 1 .. Len(runs) : runs[i].status = "errored")
    /\ [](phase = "racing" => Live(runs) # {})
    /\ (phase = "racing") ~>
          (\/ phase = "running" /\ winner.plan # 0 /\ runs[winner.plan].status = "winner"
           \/ phase = "failed" /\ error = "AllPlansFailed")

\* C9 witness: one plan of the race errored and another went on to win.
C9_Witness ==
    /\ phase = "running"
    /\ raced
    /\ \E i \in 1 .. Len(runs) : runs[i].status = "errored"
    /\ runs[winner.plan].status = "winner"

\* C10: the caller is handed no _id twice, across the sub-scans of a $or and
\* within each; every _id handed out is that of a document matching a clause
\* scanned so far, and every plan of a sub-scan is built for that clause.
C10_NoDuplicates ==
    /\ \A i, j \in 1 .. Len(emitted) : i # j => emitted[i] # emitted[j]
    /\ \A i \in 1 .. Len(emitted) :
          \E d \in 1 .. Len(docs) :
              /\ docs[d]["_id"] = emitted[i]
              /\ \E k \in 1 .. clause : Matches(Clauses(query)[k], docs[d])
    /\ Constructed =>
          \A p \in Plans :
              \E ix \in {AllIndexes[i] : i \in 1 .. Len(AllIndexes)} \cup {NaturalIndex} :
                  p = QueryPlanMake(ix, CurrentPred, query.order)

\* C10 witness: a $or has run both its sub-scans over a document that matches
\* both clauses, and that document was handed out.
C10_Witness ==
    /\ phase = "done"
    /\ query = QOr
    /\ clause = 2
    /\ Len(emitted) >= 2
    /\ \E d \in 1 .. Len(docs) :
          /\ \A k \in 1 .. 2 : Matches(Clauses(query)[k], docs[d])
          /\ Seen(emitted, docs[d]["_id"])

\* The indexes over field f are special ones only, and there is one.
OnlySpecialOn(f) ==
    /\ \E i \in 1 .. Len(indexes) : indexes[i].special /\ f \in KeyFields(indexes[i].key)
    /\ \A i \in 1 .. Len(indexes) : f \in KeyFields(indexes[i].key) => indexes[i].special

HintsSpecial(q) ==
    \E i \in HintMatches(AllIndexes, q.hint) : AllIndexes[i].special

\* C11: with allowSpecial = false a plan set never holds a special plan: a
\* geospatial operator and a hint naming a special index raise a user error, and a
\* non-geospatial predicate over a field whose index is special gets the single
\* {$natural:1} plan whatever the cache records; with allowSpecial = true that
\* predicate gets the single plan on the special index.
C11_AllowSpecial ==
    lastOp = "makeQps" =>
        /\ ~query.allowSpecial => (qps.error \/ \A p \in Plans : ~p.special)
        /\ ~query.allowSpecial /\ getSpecial(query.pred) => qps.error
        /\ ~query.allowSpecial /\ HintsSpecial(query) => qps.error
        /\ query.hint = NoHint /\ query.pred = PA(ArrClause) /\ OnlySpecialOn("a") =>
              /\ ~qps.error /\ Len(qps.plans) = 1
              /\ qps.plans[1].indexKey = (IF query.allowSpecial THEN Special2d ELSE NaturalKey)

C11_Witness ==
    /\ lastOp = "makeQps"
    /\ query = QArr(FALSE)
    /\ hasCachedQueryPlan(cache, QueryPattern(query.pred, query.order))
    /\ cachedQueryPlanForPattern(cache, QueryPattern(query.pred, query.order)).indexKey
          = Special2d
    /\ Len(qps.plans) = 1
    /\ qps.plans[1].indexKey = NaturalKey

\* C12: a hint, by key or by name, that resolves to no index of the collection
\* raises a user error: no plan set is built and the cache is left alone.
C12_BadHint ==
    lastOp = "makeQps" /\ query.hint.kind \in {"key", "name"}
                       /\ HintMatches(AllIndexes, query.hint) = {} =>
        /\ qps.error
        /\ error = "UserError"
        /\ qps.plans = << >>
        /\ cache = cacheAtStart

C12_Witness ==
    /\ lastOp = "makeQps"
    /\ query = QHintName
    /\ \A i \in 1 .. Len(AllIndexes) : AllIndexes[i].name # "a_1"
    /\ Len(indexes) > 0
    /\ qps.error

\* C13: runCount returns exactly the number of documents matching the predicate,
\* whatever indexes exist, whichever plan ran and whatever the cache held; 0 for an
\* impossible match; -1 for a missing namespace, where a query returns no documents.
C13_Count ==
    /\ lastOp = "runCount" /\ result.ns = Ns =>
          result.n = Cardinality({i \in 1 .. Len(docs) : Matches(query.pred, docs[i])})
    /\ lastOp = "runCount" /\ result.ns = Ns /\ ~matchPossible(query.pred) =>
          result.n = 0 /\ cache = cacheAtStart
    /\ lastOp = "runCount" /\ result.ns = MissingNs => result.n = 0 - 1
    /\ lastOp = "runQuery" /\ result.ns = MissingNs => result.n = 0 /\ result.scan = << >>

\* A count through an index plan whose cursor visits some of the collection's
\* documents, not all of which match.
C13_Witness ==
    /\ lastOp = "runCount"
    /\ result.ns = Ns
    /\ result.idx # "$natural"
    /\ 0 < result.n
    /\ result.n < Len(result.scan)
    /\ Len(result.scan) < Len(docs)

SameKinds(p1, p2) == \A f \in Fields : RangeKind(p1[f]) = RangeKind(p2[f])

C15_Bounds ==
    lastOp = "QueryPlan" /\ result.plan.idx # "$natural" =>
        LET key == result.plan.indexKey
            pr == query.pred
            swapped(i) == key[i][2] * (IF result.plan.direction < 0 THEN 0 - 1 ELSE 1) < 0
            lo(i) == IF Universal(pr, key[i][1]) THEN MinKey ELSE RangeLo(pr[key[i][1]])
            hi(i) == IF Universal(pr, key[i][1]) THEN TopKey ELSE RangeHi(pr[key[i][1]])
        IN  /\ Len(result.startKey) = Len(key)
            /\ Len(result.endKey) = Len(key)
            /\ \A i \in 1 .. Len(key) :
                  /\ result.startKey[i] = (IF swapped(i) THEN hi(i) ELSE lo(i))
                  /\ result.endKey[i] = (IF swapped(i) THEN lo(i) ELSE hi(i))
                  /\ Matches(pr, docs[1]) =>
                        IF swapped(i)
                        THEN /\ result.endKey[i] <= docs[1][key[i][1]]
                             /\ docs[1][key[i][1]] <= result.startKey[i]
                        ELSE /\ result.startKey[i] <= docs[1][key[i][1]]
                             /\ docs[1][key[i][1]] <= result.endKey[i]
            /\ key = << <<"a", 0 - 1>>, <<"b", 1>> >> /\ result.plan.direction = 0 - 1
                  /\ pr = PA(NoClause) =>
                  /\ result.startKey = <<MinKey, TopKey>>
                  /\ result.endKey = <<TopKey, MinKey>>

\* Index {a:-1,b:1} scanned in reverse for the sort {a:1,b:-1}, and a matching
\* document.
C15_Witness ==
    /\ lastOp = "QueryPlan"
    /\ result.plan.indexKey = << <<"a", 0 - 1>>, <<"b", 1>> >>
    /\ result.plan.direction = 0 - 1
    /\ query.pred = Pred(GtLtClause(Null, TopKey), NoClause, NoClause)
    /\ Matches(query.pred, docs[1])
    /\ result.startKey = <<Null, TopKey>>
    /\ result.endKey = <<TopKey, MinKey>>

\* C16: a plan is rated Impossible exactly when the predicate has an empty range
\* on a field of the plan's index: {a:{$in:[]}} on index {a:1} is Impossible,
\* {a:1, b:{$in:[]}} on index {a:1} is Helpful.
C16_Impossible ==
    lastOp = "QueryPlan" =>
        /\ (result.plan.utility = "Impossible") <=>
              (\E i \in 1 .. Len(result.plan.indexKey) :
                  /\ result.plan.indexKey[i][1] \in Fields
                  /\ RangeKind(query.pred[result.plan.indexKey[i][1]]) = "empty")
        /\ result.plan.indexKey = Key1("a", 1) /\ ~result.plan.sparse /\ query.order = NoOrder
              /\ query.pred = PA(InClause(1, 0)) => result.plan.utility = "Impossible"
        /\ result.plan.indexKey = Key1("a", 1) /\ ~result.plan.sparse /\ query.order = NoOrder
              /\ query.pred = Pred(EqClause(1), InClause(1, 0), NoClause) =>
              result.plan.utility = "Helpful"

C16_Witness ==
    /\ lastOp = "QueryPlan"
    /\ result.plan.indexKey = Key1("a", 1)
    /\ query.pred = Pred(EqClause(1), InClause(1, 0), NoClause)
    /\ query.order = NoOrder
    /\ result.plan.utility = "Helpful"

\* The plan the cache named for the query when the call began, if the cache named
\* an index of the collection.
CachedAtStart ==
    LET pat == QueryPattern(query.pred, query.order)
    IN  IF /\ hasCachedQueryPlan(cacheAtStart, pat)
           /\ \/ cacheAtStart[pat].indexKey = NaturalKey
              \/ findByKey(AllIndexes, cacheAtStart[pat].indexKey) # {}
        THEN <<QueryPlanMake(CachedIndex(AllIndexes, cacheAtStart[pat]), query.pred,
                             query.order)>>
        ELSE << >>

\* C17 as stated: bestGuessCursor never races; it reads the cached plan when there
\* is one that is not Disallowed, and otherwise the first index plan, in index
\* order, rated Helpful or better.
C17_CachedElseFirstHelpful ==
    lastOp = "bestGuessCursor" =>
        LET helpful == {i \in 1 .. Len(AllIndexes) :
                           Utility(AllIndexes[i], query.pred, query.order)
                               \in {"Helpful", "Optimal"}}
        IN  /\ ~raced
            /\ result.idx =
                  (IF CachedAtStart # << >> /\ CachedAtStart[1].utility # "Disallowed"
                   THEN CachedAtStart[1].idx
                   ELSE IF helpful # {} THEN AllIndexes[Min(helpful)].name
                   ELSE "$natural")

\* C17, amended: bestGuessCursor never races and records no race winner.  It
\* takes the cached plan only when the plan set would use it and it runs in the
\* requested order; otherwise it reads, of the enumerated plans, the first that
\* needs no post-sort (with no sort requested, the first plan).
C17_BestGuess ==
    lastOp = "bestGuessCursor" =>
        /\ ~raced /\ runs = << >> /\ phase = "idle"
        /\ cache = cacheAtStart \/ qps.recordsOptimal
        /\ IF /\ addCachedPlan(AllIndexes, query, cacheAtStart, "Use")
              /\ ~CachedAtStart[1].scanAndOrderRequired
           THEN qps.usingCachedPlan /\ result.idx = CachedAtStart[1].idx
           ELSE LET ps == addFallbackPlans(AllIndexes, query).plans
                    inOrder == {i \in 1 .. Len(ps) : ~ps[i].scanAndOrderRequired}
                IN  /\ ~qps.usingCachedPlan
                    /\ inOrder # {} => result.idx = ps[Min(inOrder)].idx
                    /\ query.order = NoOrder => result.idx = ps[1].idx

\* The cache names index a for ({a:1}, sort {b:1}); the cursor reads index b.
C17_Witness ==
    /\ lastOp = "bestGuessCursor"
    /\ query = QASortB
    /\ CachedAtStart # << >>
    /\ CachedAtStart[1].idx = "a_1"
    /\ CachedAtStart[1].utility = "Helpful"
    /\ result.idx = "b_1"

\* C18: with a sort, bestGuessCursor reads an index that serves the sort whenever
\* the collection has one, whichever index the predicate's equality matches and
\* whatever the cache records; its cursor carries the query's matcher, so a
\* visited document that does not satisfy the predicate does not match.
C18_BestGuessServesSort ==
    lastOp = "bestGuessCursor" /\ query.order # NoOrder
        /\ (\E i \in 1 .. Len(AllIndexes) :
               /\ ~AllIndexes[i].special
               /\ ~scanAndOrderRequired(AllIndexes[i], query.pred, query.order)) =>
        /\ \E i \in 1 .. Len(AllIndexes) :
               /\ AllIndexes[i].name = result.idx
               /\ ~scanAndOrderRequired(AllIndexes[i], query.pred, query.order)
        /\ result.matcher = query.pred
        /\ \A k \in 1 .. Len(result.scan) :
               ~Matches(query.pred, docs[result.scan[k]])
                   => ~Matches(result.matcher, docs[result.scan[k]])

\* {a:1} sorted by b with indexes a and b: the cursor is on b, and of the documents
\* it visits one matches and one does not.
C18_Witness ==
    /\ lastOp = "bestGuessCursor"
    /\ query = QASortB
    /\ \E i \in 1 .. Len(indexes) : indexes[i].name = "a_1"
    /\ result.idx = "b_1"
    /\ \E k \in 1 .. Len(result.scan) : Matches(result.matcher, docs[result.scan[k]])
    /\ \E k \in 1 .. Len(result.scan) : ~Matches(result.matcher, docs[result.scan[k]])

\* Some index gives the query a plan the planner keeps.
IndexServes(q) ==
    \E i \in 1 .. Len(AllIndexes) :
        /\ KeptUtility(Utility(AllIndexes[i], q.pred, q.order))
        /\ AllIndexes[i].special => q.allowSpecial

\* C19: findOne with requireIndex fails with an assertion exactly when no index
\* serves the query; otherwise, like findOne without requireIndex, it succeeds
\* exactly when the collection holds a matching document.
C19_FindOneRequireIndex ==
    /\ lastOp = "findOneRequireIndex" =>
          /\ result.error <=> ~IndexServes(query)
          /\ ~result.error =>
                /\ result.idx # "$natural"
                /\ result.found <=> \E i \in 1 .. Len(docs) : Matches(query.pred, docs[i])
    /\ lastOp = "findOne" =>
          /\ ~result.error
          /\ result.found <=> \E i \in 1 .. Len(docs) : Matches(query.pred, docs[i])

\* The collection holds a matching document and no index on the queried field:
\* findOne with requireIndex throws.
C19_Witness ==
    /\ lastOp = "findOneRequireIndex"
    /\ query = QA(1)
    /\ \E i \in 1 .. Len(docs) : Matches(query.pred, docs[i])
    /\ \A i \in 1 .. Len(indexes) : "a" \notin KeyFields(indexes[i].key)
    /\ result.error

\* C20: a plan set built with policy Use and no hint that finds an Optimal plan by
\* enumeration records it under the query's pattern without a race: the entry has
\* the plan's index key, mayRunInOrderPlan = true and mayRunOutOfOrderPlan = false.
C20_OptimalRecorded ==
    lastOp = "makeQps" /\ ~qps.error /\ query.hint = NoHint /\ ~qps.usingCachedPlan
        /\ (\E i \in 1 .. Len(qps.plans) : qps.plans[i].utility = "Optimal") =>
        LET pat == QueryPattern(query.pred, query.order)
        IN  /\ Len(qps.plans) = 1
            /\ ~raced /\ runs = << >>
            /\ hasCachedQueryPlan(cache, pat)
            /\ cachedQueryPlanForPattern(cache, pat).indexKey = qps.plans[1].indexKey
            /\ cachedQueryPlanForPattern(cache, pat).mayRunInOrderPlan
            /\ ~cachedQueryPlanForPattern(cache, pat).mayRunOutOfOrderPlan

\* {a:1} on a collection with two indexes that are Optimal for it, the cache
\* holding nothing for the pattern before.
C20_Witness ==
    /\ lastOp = "makeQps"
    /\ query = QA(1)
    /\ Len(indexes) = 2
    /\ \A i \in 1 .. 2 : Utility(indexes[i], query.pred, query.order) = "Optimal"
    /\ ~hasCachedQueryPlan(cacheAtStart, QueryPattern(query.pred, query.order))
    /\ cachedQueryPlanForPattern(cache, QueryPattern(query.pred, query.order)).indexKey
          = indexes[1].key

\* C21: a plan on a sparse index (that is not Impossible) is Disallowed exactly
\* when the predicate has, on any field, a top-level $exists:false or
\* $not:{$exists:true}, or under $nor any $exists clause, true or false, wrapped
\* in $not or not; every other clause leaves it allowed.
C21_SparseExists ==
    LET TopOps(f) == <<query.pred[f].op,
                       IF query.pred[f].op \in {"not", "nor"}
                       THEN query.pred[f].nested.op ELSE "">>
        Disallowing(f) ==
            \/ TopOps(f) \in {<<"existsFalse", "">>, <<"not", "existsTrue">>}
            \/ TopOps(f) \in {<<"nor", "existsFalse">>, <<"nor", "existsTrue">>}
            \/ /\ TopOps(f) = <<"nor", "not">>
               /\ query.pred[f].nested.nested.op \in {"existsFalse", "existsTrue"}
    IN  (result.op = "QueryPlan" /\ indexes[1].sparse /\ result.plan.utility # "Impossible")
        => (result.plan.utility = "Disallowed" <=> \E f \in Fields : Disallowing(f))

\* The sparse index {a:1} is rated for {$nor:[{b:{$exists:true}}]} and Disallowed.
C21_Witness ==
    /\ result.op = "QueryPlan"
    /\ indexes[1].sparse
    /\ query.pred["b"].op = "nor"
    /\ query.pred["b"].nested.op = "existsTrue"
    /\ result.plan.utility = "Disallowed"

\* A plan of QueryPlanSpec on an ordinary index that is rated past rules 1 and 2.
RatedBtreePlan ==
    /\ result.op = "QueryPlan"
    /\ indexes[1].name # "$natural"
    /\ ~indexes[1].special
    /\ result.plan.utility \notin {"Impossible", "Disallowed"}

\* The plan serves a requested sort in index order.
ServesSort == query.order # NoOrder /\ ~result.plan.scanAndOrderRequired

\* C22 as stated: a plan that is neither Impossible nor Disallowed is Unhelpful
\* exactly when no indexed field has a non-universal range and the index does
\* not serve the sort.
C22_UnhelpfulNoFieldRange ==
    RatedBtreePlan =>
        (result.plan.utility = "Unhelpful"
            <=> /\ \A f \in KeyFields(indexes[1].key) : Universal(query.pred, f)
                /\ ~ServesSort)

\* C22: a plan on an ordinary index that is neither Impossible nor Disallowed is
\* Unhelpful exactly when the range of the index's first key field is universal
\* and the plan does not serve a requested sort in order; a range on a later key
\* field does not make it Helpful.
C22_Unhelpful ==
    RatedBtreePlan =>
        (result.plan.utility = "Unhelpful"
            <=> /\ Universal(query.pred, indexes[1].key[1][1])
                /\ ~ServesSort)

\* Optimal p6: index {a:1,b:1}, predicate {b:1}, sort {b:1} is Unhelpful although
\* the indexed field b has a point range.
C22_Witness ==
    /\ RatedBtreePlan
    /\ indexes[1].key = << <<"a", 1>>, <<"b", 1>> >>
    /\ query.pred = PB(EqClause(1))
    /\ query.order = SortB
    /\ result.plan.utility = "Unhelpful"

\* Every clause of the query is a single interval (no $in of several values,
\* no $ne).
SingleIntervals ==
    \A f \in Fields :
        /\ RangeKind(query.pred[f]) \in {"universal", "point", "range"}
        /\ query.pred[f].op # "ne"

\* The index key read literally as a prefix of (equality fields) ++ (sort fields):
\* its first fields are equality fields, and once those are used up the rest
\* follows the sort.
KeyIsPrefixOfEqualitiesThenSort ==
    LET key == indexes[1].key
        n == Cardinality({f \in Fields : Equality(query.pred, f)})
    IN  /\ \A i \in 1 .. Len(key) : i <= n => Equality(query.pred, key[i][1])
        /\ Len(key) - n <= Len(query.order)
        /\ \A i \in (n + 1) .. Len(key) : key[i][1] = query.order[i - n][1]

\* C23 as stated: a plan past rules 1-3 is Optimal exactly when the index key is
\* a prefix of (equality fields) ++ (sort fields) and the clauses are single
\* intervals, else Helpful.
C23_OptimalKeyIsPrefix ==
    (RatedBtreePlan /\ result.plan.utility # "Unhelpful") =>
        (result.plan.utility = "Optimal"
            <=> KeyIsPrefixOfEqualitiesThenSort /\ SingleIntervals)

\* The key starts with equality fields, then at most one more constrained field,
\* and the predicate constrains no other field.
CoversPredicate ==
    LET key == indexes[1].key
    IN  \E k \in 0 .. Len(key) :
            /\ \A i \in 1 .. k : Equality(query.pred, key[i][1])
            /\ \A i \in (k + 2) .. Len(key) : Universal(query.pred, key[i][1])
            /\ \A f \in Fields : ~Universal(query.pred, f) => f \in KeyFields(key)

\* C23: for a predicate of single intervals, a plan on an ordinary index that is
\* not Impossible, Disallowed or Unhelpful is Optimal exactly when it needs no
\* post-sort and the index key starts with equality fields followed by at most
\* one more constrained field, every constrained field being among these;
\* otherwise it is Helpful.  The collection scan is Helpful, and a 2d plan is
\* never Optimal and Helpful for a geospatial predicate.
C23_Optimal ==
    /\ (RatedBtreePlan /\ result.plan.utility # "Unhelpful" /\ SingleIntervals) =>
          /\ result.plan.utility \in {"Optimal", "Helpful"}
          /\ result.plan.utility = "Optimal"
                <=> ~result.plan.scanAndOrderRequired /\ CoversPredicate
    /\ (result.op = "QueryPlan" /\ indexes[1].name = "$natural") =>
          result.plan.utility = "Helpful"
    /\ (result.op = "QueryPlan" /\ indexes[1].special) =>
          /\ result.plan.utility # "Optimal"
          /\ getSpecial(query.pred) => result.plan.utility = "Helpful"

\* Optimal p2: index {a:1,b:1}, no predicate, sort {a:1} is Optimal.
C23_Witness ==
    /\ RatedBtreePlan
    /\ indexes[1].key = << <<"a", 1>>, <<"b", 1>> >>
    /\ query.pred = NoQuery.pred
    /\ query.order = SortA
    /\ result.plan.utility = "Optimal"

\* A plan of QueryPlanSpec on an ordinary index, for a requested sort.
SortedBtreePlan ==
    /\ result.op = "QueryPlan"
    /\ indexes[1].name # "$natural"
    /\ ~indexes[1].special
    /\ query.order # NoOrder

\* The sort is a prefix of the index key, every sign times d the key's sign.
SortIsKeyPrefix(d) ==
    /\ Len(query.order) <= Len(indexes[1].key)
    /\ \A o \in 1 .. Len(query.order) :
          /\ indexes[1].key[o][1] = query.order[o][1]
          /\ indexes[1].key[o][2] = d * query.order[o][2]

\* C24 as stated: for a non-empty sort the direction is d (+1 or -1), without a
\* post-sort, exactly when the sort is a prefix of the index key with signs
\* matching (flipped); otherwise it is 0 with a post-sort.
C24_SortIsPrefix ==
    SortedBtreePlan =>
        /\ \A d \in {1, 0 - 1} :
              (result.plan.direction = d /\ ~result.plan.scanAndOrderRequired)
                  <=> SortIsKeyPrefix(d)
        /\ result.plan.direction = 0 <=> result.plan.scanAndOrderRequired

\* The position of a sort field in the index key (0: not an index field).
KeyPos(o) ==
    IF \E i \in 1 .. Len(indexes[1].key) : indexes[1].key[i][1] = query.order[o][1]
    THEN CHOOSE i \in 1 .. Len(indexes[1].key) : indexes[1].key[i][1] = query.order[o][1]
    ELSE 0

\* The sort follows the index key once the key fields the predicate holds to an
\* equality are passed over, every sign times d the key's sign.
SortFollowsKey(d) ==
    /\ \A o \in 1 .. Len(query.order) :
          /\ KeyPos(o) > 0
          /\ o > 1 => KeyPos(o - 1) < KeyPos(o)
          /\ indexes[1].key[KeyPos(o)][2] = d * query.order[o][2]
    /\ \A i \in 1 .. KeyPos(Len(query.order)) :
          \/ \E o \in 1 .. Len(query.order) : KeyPos(o) = i
          \/ Equality(query.pred, indexes[1].key[i][1])

\* C24: for a non-empty sort, a plan on an ordinary index has direction d (+1 or
\* -1) and needs no post-sort exactly when the sort fields appear in the index
\* key in the sort's order, with all signs matching (all flipped), and every key
\* field before or between them that is not a sort field is held to an equality
\* by the predicate; otherwise the direction is 0 and a post-sort is required.
C24_Direction ==
    SortedBtreePlan =>
        /\ \A d \in {1, 0 - 1} :
              (result.plan.direction = d /\ ~result.plan.scanAndOrderRequired)
                  <=> SortFollowsKey(d)
        /\ result.plan.direction \in {0 - 1, 0, 1}
        /\ result.plan.direction = 0 <=> result.plan.scanAndOrderRequired

\* EqualWithOrder p: index {a:1,b:1}, predicate {a:1}, sort {b:1} runs in order.
C24_Witness ==
    /\ SortedBtreePlan
    /\ indexes[1].key = << <<"a", 1>>, <<"b", 1>> >>
    /\ Equality(query.pred, "a")
    /\ query.order = SortB
    /\ result.plan.direction = 1
    /\ ~result.plan.scanAndOrderRequired

\* A plan of QueryPlanSpec on an ordinary index or the collection scan, sorted
\* (if at all) by fields of its key.
KeyMatchPlan ==
    /\ result.op = "QueryPlan"
    /\ ~indexes[1].special
    /\ \A o \in 1 .. Len(query.order) : query.order[o][1] \in KeyFields(indexes[1].key)

\* The fields the predicate has a clause on.
ClauseFields == {f \in Fields : query.pred[f].op # "none"}

\* C25 as stated: exactKeyMatch holds exactly when every clause is on an index
\* key field and is an equality to a string; never for an impossible match.
C25_EveryClauseExact ==
    KeyMatchPlan =>
        /\ result.exactKeyMatch
              <=> \A f \in ClauseFields :
                      f \in KeyFields(indexes[1].key) /\ query.pred[f].op = "eqStr"
        /\ ~matchPossible(query.pred) => ~result.exactKeyMatch

\* C25: exactKeyMatch holds exactly when the plan is on an index, the predicate
\* has a clause on every field of the index key and on no other field, and each
\* clause is an equality to a string (not to a number or an embedded object, not
\* a regex, range, negation or $exists); never for an impossible match.
C25_ExactKeyMatch ==
    KeyMatchPlan =>
        /\ result.exactKeyMatch
              <=> /\ indexes[1].name # "$natural"
                  /\ ClauseFields = KeyFields(indexes[1].key)
                  /\ \A f \in ClauseFields : query.pred[f].op = "eqStr"
        /\ query.pred["a"].op \in {"eq", "eqObj", "regex"} => ~result.exactKeyMatch
        /\ ~matchPossible(query.pred) => ~result.exactKeyMatch

\* KeyMatch p8: index {a:1,b:1} with string equalities on a and b is exact.
C25_Witness ==
    /\ KeyMatchPlan
    /\ indexes[1].key = << <<"a", 1>>, <<"b", 1>> >>
    /\ query.pred = Pred(StrEqClause(1), StrEqClause(1), NoClause)
    /\ result.exactKeyMatch

\* A plan of QueryPlanSpec on an ordinary index.
BtreePlan == result.op = "QueryPlan" /\ indexes[1].name # "$natural" /\ ~indexes[1].special

\* The index key splits at k: the first k fields are each held to a finite set,
\* the sort without its fields among them follows as a contiguous run, and the
\* fields after the run are unconstrained.
SplitsAt(k) ==
    LET key == indexes[1].key
        InPrefix(f) == \E i \in 1 .. k : key[i][1] = f
        sorted == {o \in 1 .. Len(query.order) : ~InPrefix(query.order[o][1])}
        n == Cardinality(sorted)
        Rank(o) == Cardinality({o2 \in sorted : o2 <= o})
    IN  /\ \A i \in 1 .. k :
              RangeKind(query.pred[key[i][1]]) \in {"point", "finite"}
        /\ k + n <= Len(key)
        /\ \A o \in sorted : key[k + Rank(o)][1] = query.order[o][1]
        /\ \A i \in (k + 1) .. Len(key) : Universal(query.pred, key[i][1])

\* Every sort field of the index key has the key's sign.
SortSignsMatch ==
    \A o \in 1 .. Len(query.order), i \in 1 .. Len(indexes[1].key) :
        indexes[1].key[i][1] = query.order[o][1]
            => indexes[1].key[i][2] = query.order[o][2]

\* C26 as stated: for an indexed plan the flag holds exactly when the index key
\* splits into a finite-set prefix, a run matching the sort and unconstrained
\* trailing fields; it is false for a collection scan.
C26_SplitsOnly ==
    /\ (BtreePlan /\ SortSignsMatch) =>
          (result.queryFiniteSetOrderSuffix
              <=> \E k \in 0 .. Len(indexes[1].key) : SplitsAt(k))
    /\ (result.op = "QueryPlan" /\ indexes[1].name = "$natural") =>
          ~result.queryFiniteSetOrderSuffix

\* C26: for a plan on an ordinary index and a sort whose signs are the index
\* key's, queryFiniteSetOrderSuffix holds exactly when the index key splits into
\* a prefix whose fields are each held to a finite set, a contiguous run matching
\* the sort (sort fields of the prefix skipped, an empty sort matching) and
\* unconstrained trailing fields, and the predicate constrains no field outside
\* the index key.  It is false for a collection scan, and for a sort that keeps
\* the sign of a prefix field but flips the sign of a field after the prefix.
C26_FiniteSetOrderSuffix ==
    /\ (BtreePlan /\ SortSignsMatch) =>
          (result.queryFiniteSetOrderSuffix
              <=> /\ \E k \in 0 .. Len(indexes[1].key) : SplitsAt(k)
                  /\ \A f \in Fields :
                        ~Universal(query.pred, f) => f \in KeyFields(indexes[1].key))
    /\ (result.op = "QueryPlan" /\ indexes[1].name = "$natural") =>
          ~result.queryFiniteSetOrderSuffix
    /\ ( /\ BtreePlan
         /\ Len(query.order) = 2
         /\ indexes[1].key[1] = query.order[1]
         /\ ~Universal(query.pred, query.order[1][1])
         /\ Len(indexes[1].key) >= 2
         /\ indexes[1].key[2][1] = query.order[2][1]
         /\ indexes[1].key[2][2] # query.order[2][2] ) =>
          ~result.queryFiniteSetOrderSuffix

\* NonCoveredRange: index {a:1,b:1}, predicate {a:{$in:[..]}, _id:1}, sort {b:1}:
\* the key splits, the flag is false.
C26_Witness ==
    /\ BtreePlan
    /\ indexes[1].key = << <<"a", 1>>, <<"b", 1>> >>
    /\ query.pred = Pred(InClause(1, MaxVal), NoClause, EqClause(1))
    /\ query.order = SortB
    /\ SplitsAt(1)
    /\ ~result.queryFiniteSetOrderSuffix

\* makeQps built a plan set by enumeration: no hint, no cached plan, no special
\* plan, and no index rated Optimal.
EnumeratedNoOptimal ==
    /\ lastOp = "makeQps"
    /\ ~qps.error
    /\ query.hint = NoHint
    /\ ~qps.usingCachedPlan
    /\ \A i \in 1 .. Len(qps.plans) : ~qps.plans[i].special
    /\ \A i \in 1 .. Len(AllIndexes) :
          Utility(AllIndexes[i], query.pred, query.order) # "Optimal"

\* The Helpful plans of the ordinary indexes, in index order.
HelpfulIndexPlans ==
    LET IsHelpful(p) == p.utility = "Helpful" /\ ~p.special
    IN  SelectSeq([i \in 1 .. Len(AllIndexes) |->
                      QueryPlanMake(AllIndexes[i], query.pred, query.order)], IsHelpful)

NaturalPlan == QueryPlanMake(NaturalIndex, query.pred, query.order)

\* C27 as stated: the set is the Helpful index plans, plus the collection scan
\* exactly when none of them serves the sort in order; a sort-less request with
\* an index covering an equality gets no collection scan.
C27_ScanOnlyIfUnordered ==
    EnumeratedNoOptimal =>
        LET h == HelpfulIndexPlans
            scan == /\ \A i \in 1 .. Len(h) : h[i].scanAndOrderRequired
                    /\ ~ /\ query.order = NoOrder
                          /\ \E i \in 1 .. Len(h) : Equality(query.pred, h[i].indexKey[1][1])
        IN  qps.plans = IF scan THEN Append(h, NaturalPlan) ELSE h

\* C27: when no hint, cached plan, special plan or Optimal plan applies, the
\* plan set is the Helpful index plans in index order followed by the collection
\* scan, whether or not one of them serves the sort and whether or not the
\* request has a sort.
C27_FallbackPlans == EnumeratedNoOptimal => qps.plans = Append(HelpfulIndexPlans, NaturalPlan)

\* NoOptimal: indexes {a:1} and {b:1}, {a:1} sorted by b: three plans, b_1 in
\* order, and the collection scan.
C27_Witness ==
    /\ EnumeratedNoOptimal
    /\ query = QASortB
    /\ Len(qps.plans) = 3
    /\ ~qps.plans[2].scanAndOrderRequired
    /\ qps.plans[3].idx = "$natural"

KeySet(ixs) == {ixs[i].key : i \in 1 .. Len(ixs)}
IndexNamed(n) == CHOOSE ix \in IndexCatalog : ix.name = n /\ ~ix.sparse
SpecialPlanOn(ix) == QueryPlanMake(ix, query.pred, query.order)

\* C28: {a:[0,0], b:1} has no geospatial operator but fits a 2d index on a.  With
\* a viable btree plan the set holds no special plan, and with indexes a_2d and
\* a_1 it is the a_1 plan and the collection scan; with a_2d as the only index
\* it is the single special plan.  {a:{$near:[0,0]}} with special plans allowed
\* gets the single special plan whenever a 2d index on a exists, also next to a_1.
C28_SpecialOrBtree ==
    lastOp = "makeQps" =>
        /\ query = QArrB /\ CandidatePlans(AllIndexes, query) # << >> =>
              /\ ~qps.error
              /\ \A i \in 1 .. Len(qps.plans) : ~qps.plans[i].special
        /\ query = QArrB /\ KeySet(indexes) = {Key1("a", 2), Key1("a", 1)} =>
              /\ Len(qps.plans) = 2
              /\ qps.plans[1].idx = "a_1" /\ ~qps.plans[1].special
              /\ qps.plans[2].idx = "$natural"
        /\ query = QArrB /\ indexes = <<IndexNamed("a_2d")>> =>
              qps.plans = <<SpecialPlanOn(IndexNamed("a_2d"))>> /\ qps.plans[1].special
        /\ query = QNear(TRUE) /\ Key1("a", 2) \in KeySet(indexes) =>
              qps.plans = <<SpecialPlanOn(IndexNamed("a_2d"))>> /\ qps.plans[1].special

\* ExcludeSpecialPlanWhenBtreePlan: a_2d then a_1, {a:[0,0], b:1}.
C28_Witness ==
    /\ lastOp = "makeQps"
    /\ query = QArrB
    /\ indexes = <<IndexNamed("a_2d"), IndexNamed("a_1")>>
    /\ Len(qps.plans) = 2
    /\ ~qps.plans[1].special

haveInOrderPlan(s) == \E i \in 1 .. Len(s.plans) : ~s.plans[i].scanAndOrderRequired
haveOutOfOrderPlan(s) == \E i \in 1 .. Len(s.plans) : s.plans[i].scanAndOrderRequired

\* C29: a plan set built from a cache entry has one plan, the plan of the
\* recorded index; its possible-in-order and possible-out-of-order flags are the
\* recorded character's bits; it has an in-order plan iff that plan serves the
\* sort; and it reports possibly excluded plans iff the character permits the
\* kind of plan the cached plan is not.  A set built without the cache reports no
\* excluded plans and its possible flags are those of the plans it holds.  In
\* every set, having an in-order plan implies an in-order plan is possible.
C29_PossiblePlans ==
    lastOp = "makeQps" /\ ~qps.error =>
        /\ IF qps.usingCachedPlan
           THEN LET e == cachedQueryPlanForPattern(cacheAtStart,
                             QueryPattern(query.pred, query.order))
                IN  /\ Len(qps.plans) = 1
                    /\ qps.plans[1].indexKey = e.indexKey
                    /\ qps.possibleInOrderPlan = e.mayRunInOrderPlan
                    /\ qps.possibleOutOfOrderPlan = e.mayRunOutOfOrderPlan
                    /\ haveInOrderPlan(qps) = ~qps.plans[1].scanAndOrderRequired
                    /\ qps.hasPossiblyExcludedPlans =
                          IF qps.plans[1].scanAndOrderRequired
                          THEN e.mayRunInOrderPlan
                          ELSE e.mayRunOutOfOrderPlan
           ELSE /\ ~qps.hasPossiblyExcludedPlans
                /\ qps.possibleInOrderPlan = haveInOrderPlan(qps)
                /\ qps.possibleOutOfOrderPlan = haveOutOfOrderPlan(qps)
        /\ haveInOrderPlan(qps) => qps.possibleInOrderPlan

\* PossiblePlans: the cache names a_1 for {a:1} sorted by b with character
\* (true, true); the cached plan needs a sort, so in-order plans were excluded.
C29_Witness ==
    /\ lastOp = "makeQps"
    /\ query = QASortB
    /\ qps.usingCachedPlan
    /\ Len(qps.plans) = 1
    /\ qps.plans[1].idx = "a_1"
    /\ qps.possibleInOrderPlan
    /\ ~haveInOrderPlan(qps)
    /\ qps.possibleOutOfOrderPlan
    /\ qps.hasPossiblyExcludedPlans

\* The cache named, when makeQps began, an index of the collection whose plan for
\* the query is Unhelpful.
UnhelpfulPlanRecorded ==
    /\ lastOp = "makeQps"
    /\ query.hint = NoHint
    /\ CachedAtStart # << >>
    /\ CachedAtStart[1].utility = "Unhelpful"

\* C30: a recorded plan that is Unhelpful for the query is not used: the set is
\* built by enumeration and holds no Unhelpful plan; with {a:1} the only index
\* besides _id, the set for {b:1} is the collection scan alone.
C30_UnhelpfulRecordedPlan ==
    UnhelpfulPlanRecorded =>
        /\ ~qps.error
        /\ ~qps.usingCachedPlan
        /\ \A i \in 1 .. Len(qps.plans) : qps.plans[i].utility # "Unhelpful"
        /\ query = QB /\ KeySet(indexes) = {Key1("a", 1)} =>
              /\ Len(qps.plans) = 1
              /\ qps.plans[1].indexKey = NaturalKey

\* AvoidUnhelpfulRecordedPlan: index {a:1}, {a:1} recorded for {b:1}'s pattern.
C30_Witness ==
    /\ UnhelpfulPlanRecorded
    /\ query = QB
    /\ indexes = <<IndexNamed("a_1")>>
    /\ CachedAtStart[1].idx = "a_1"
    /\ Len(qps.plans) = 1
    /\ qps.plans[1].idx = "$natural"

====
